---- MODULE Spec2Model ----
(***************************************************************************)
(* Financial report aggregation of the ledger application.                 *)
(*                                                                         *)
(* Modelled: the tabular report builder (buildFinancialMovementsReport),   *)
(* the chart report builder (buildFinancialMovementsChart) with its fetch  *)
(* helper and the date-range normaliser (buildUtcRangeExclusive), over a   *)
(* transaction table queried through prisma.transaction.findMany; the      *)
(* bucket-key functions (bucketKeyUTC, toPeriod), the CSV encoder          *)
(* (financialMovementsReportToCsv, esc), the calls the two report          *)
(* endpoints make (normalizeFinancialGranularity, requireIsoRange), and    *)
(* the HTTP handlers of the report endpoints and of the transactions       *)
(* endpoint with requireAuthOr401 and requireRoleOr403.                    *)
(*                                                                         *)
(* Representation.                                                         *)
(*  - An instant (a JS Date) is a whole number of hours since              *)
(*    1970-01-01T00:00Z; an invalid Date (getTime() is NaN) is NaN.        *)
(*  - A string is the sequence of its character codes, so that the JS      *)
(*    string comparison is the lexicographic comparison of sequences.      *)
(*  - An optional value (undefined / null or a value) is a set with at     *)
(*    most one element.                                                    *)
(*  - Amounts are whole currency units, which JS numbers add exactly.      *)
(***************************************************************************)
EXTENDS Integers, Sequences, FiniteSets, Bags, TLC

(***************************************************************************)
(* Bounds of the model.                                                    *)
(***************************************************************************)
\* instants are T0 + k * TickHours for k in 0..MaxTick
MaxTick == 2
\* amounts are 1..MaxAmount
MaxAmount == 1
\* the transaction table holds at most MaxTx rows
MaxTx == 2
\* request slots; the slots in `clients` are the ones that are served
NumReqs == 2
\* the instants offered to the date-range normaliser called on its own
MaxRangeTick == 5

\* the CSV encoder run on its own takes fields of at most MaxFieldLen
\* characters and reports of at most MaxSeries series entries
MaxFieldLen == 1
MaxSeries == 2
\* the aggregation loop run on its own takes lists of at most MaxList rows
MaxList == 3
\* the instants offered to the bucket-key functions called on their own:
\* KeyT0 + k * KeyTickHours for k in 0..MaxKeyTick, a window over the turn of
\* the year 2025/2026, and OldT0 + k * KeyTickHours for k in 0..MaxOldTick, a
\* window over the turn of the year 999/1000
MaxKeyTick == 20
MaxOldTick == 6
\* 2025-12-27T00:00Z (day 20449), and 0999-12-30T00:00Z (day -354287) as
\* hours before the epoch
KeyT0 == 490776
OldHoursBeforeEpoch == 8502888
OldT0 == 0 - OldHoursBeforeEpoch
KeyTickHours == 11

\* 2026-01-31T00:00Z in hours since the epoch (day 20484), and the step
T0 == 491616
TickHours == 12
HoursPerDay == 24

Times == { T0 + k * TickHours : k \in 0..MaxTick }
RangeTimes == { T0 + k * TickHours : k \in 0..MaxRangeTick }
KeyTimes == { KeyT0 + k * KeyTickHours : k \in 0..MaxKeyTick }
              \cup { OldT0 + k * KeyTickHours : k \in 0..MaxOldTick }
Amounts == 1..MaxAmount
Reqs == 1..NumReqs

\* getTime() of an invalid Date; every comparison with it is false
NaN == -1

GtTime(a, b) == a # NaN /\ b # NaN /\ a > b

(***************************************************************************)
(* The UTC calendar fields of a Date (getUTCFullYear, getUTCMonth + 1,     *)
(* getUTCDate, getUTCDay), by the proleptic Gregorian calendar.            *)
(***************************************************************************)
CivilOfDays(days) ==
    LET z == days + 719468
        era == z \div 146097
        doe == z - era * 146097
        yoe == (doe - doe \div 1460 + doe \div 36524 - doe \div 146096) \div 365
        doy == doe - (365 * yoe + yoe \div 4 - yoe \div 100)
        mp == (5 * doy + 2) \div 153
        d == doy - (153 * mp + 2) \div 5 + 1
        m == IF mp < 10 THEN mp + 3 ELSE mp - 9
        y == yoe + era * 400 + (IF m <= 2 THEN 1 ELSE 0)
    IN  [y |-> y, m |-> m, d |-> d]

DaysOfCivil(y0, m, d) ==
    LET y == IF m <= 2 THEN y0 - 1 ELSE y0
        era == y \div 400
        yoe == y - era * 400
        doy == (153 * (IF m > 2 THEN m - 3 ELSE m + 9) + 2) \div 5 + d - 1
        doe == yoe * 365 + yoe \div 4 - yoe \div 100 + doy
    IN  era * 146097 + doe - 719468

UTCFields(t) == CivilOfDays(t \div HoursPerDay)
UTCHours(t) == t % HoursPerDay
\* 0 = Sunday; 1970-01-01 was a Thursday
UTCDay(t) == ((t \div HoursPerDay) + 4) % 7

(***************************************************************************)
(* Strings.                                                                *)
(***************************************************************************)
Ch0 == 48
ChDash == 45
ChColon == 58
ChDot == 46
ChT == 84
ChZ == 90

RECURSIVE DigitsOf(_)
\* String(n) for a natural number n
DigitsOf(n) ==
    IF n < 10 THEN << Ch0 + n >>
    ELSE Append(DigitsOf(n \div 10), Ch0 + (n % 10))

RECURSIVE PadStart(_, _, _)
\* s.padStart(len, c)
PadStart(s, len, c) ==
    IF Len(s) >= len THEN s ELSE PadStart(<< c >> \o s, len, c)

pad2(n) == PadStart(DigitsOf(n), 2, Ch0)

\* a < b for JS strings
RECURSIVE StrLess(_, _)
StrLess(a, b) ==
    IF b = << >> THEN FALSE
    ELSE IF a = << >> THEN TRUE
    ELSE IF Head(a) # Head(b) THEN Head(a) < Head(b)
    ELSE StrLess(Tail(a), Tail(b))

StrAll == << 97, 108, 108 >>
StrDay == << 100, 97, 121 >>
StrMonth == << 109, 111, 110, 116, 104 >>
StrCOP == << 67, 79, 80 >>
StrGarbage == << 110, 111, 112, 101 >>
StrEmpty == << >>

\* Date.prototype.toISOString of a valid Date: YYYY-MM-DDTHH:00:00.000Z
ToISOString(t) ==
    LET c == UTCFields(t)
    IN  PadStart(DigitsOf(c.y), 4, Ch0) \o << ChDash >> \o pad2(c.m)
          \o << ChDash >> \o pad2(c.d) \o << ChT >> \o pad2(UTCHours(t))
          \o << ChColon, Ch0, Ch0, ChColon, Ch0, Ch0, ChDot, Ch0, Ch0, Ch0, ChZ >>

\* the date-only form YYYY-MM-DD of the UTC day of t
ToDateOnly(t) == SubSeq(ToISOString(t), 1, 10)

IsDigit(c) == c >= Ch0 /\ c <= Ch0 + 9

NumAt(s, i, n) ==
    LET RECURSIVE Go(_, _)
        Go(k, acc) == IF k = n THEN acc
                      ELSE Go(k + 1, acc * 10 + (s[i + k] - Ch0))
    IN  Go(0, 0)

DaysInMonth(y, m) ==
    IF m = 2
    THEN IF (y % 4 = 0 /\ y % 100 # 0) \/ y % 400 = 0 THEN 29 ELSE 28
    ELSE IF m \in {4, 6, 9, 11} THEN 30 ELSE 31

\* getTime() of new Date(s) for the ISO forms YYYY-MM-DD (UTC midnight) and
\* YYYY-MM-DDTHH:00:00.000Z; anything else gives an invalid Date
DateParse(s) ==
    LET dateOk == /\ Len(s) >= 10
                  /\ \A i \in {1, 2, 3, 4, 6, 7, 9, 10} : IsDigit(s[i])
                  /\ s[5] = ChDash /\ s[8] = ChDash
        y == NumAt(s, 1, 4)
        m == NumAt(s, 6, 2)
        d == NumAt(s, 9, 2)
        civilOk == m >= 1 /\ m <= 12 /\ d >= 1 /\ d <= DaysInMonth(y, m)
        timeOk == /\ Len(s) = 24
                  /\ s[11] = ChT /\ IsDigit(s[12]) /\ IsDigit(s[13])
                  /\ SubSeq(s, 14, 24) =
                       << ChColon, Ch0, Ch0, ChColon, Ch0, Ch0, ChDot, Ch0, Ch0, Ch0, ChZ >>
                  /\ NumAt(s, 12, 2) <= 23
    IN  IF ~dateOk THEN NaN
        ELSE IF ~civilOk THEN NaN
        ELSE IF Len(s) = 10 THEN DaysOfCivil(y, m, d) * HoursPerDay
        ELSE IF timeOk THEN DaysOfCivil(y, m, d) * HoursPerDay + NumAt(s, 12, 2)
        ELSE NaN

(***************************************************************************)
(* The transaction table and the query prisma.transaction.findMany.        *)
(***************************************************************************)
\* the values of the database enum "TransactionType"
TransactionType == { "INCOME", "EXPENSE" }
\* a type value outside the enum, for a source that returns a faulty row
UnknownType == "TRANSFER"

RowsOf(types) == [amount : Amounts, date : Times, type : types]

RECURSIVE TablesUpTo(_, _)
\* the tables (multisets of rows) with at most n rows
TablesUpTo(rows, n) ==
    IF n = 0 THEN { EmptyBag }
    ELSE LET smaller == TablesUpTo(rows, n - 1)
         IN  smaller \cup
               { b (+) SetToBag({r}) :
                   b \in { c \in smaller : BagCardinality(c) = n - 1 }, r \in rows }

NoFilter == { }

\* the where clause: no date filter, or one with optional gte / lte / lt
MatchesWhere(row, w) ==
    \A f \in w :
        /\ \A v \in f.gte : row.date >= v
        /\ \A v \in f.lte : row.date <= v
        /\ \A v \in f.lt : row.date < v

SelectRows(table, w) ==
    LET keep == { r \in BagToSet(table) : MatchesWhere(r, w) }
    IN  [r \in keep |-> table[r]]

RECURSIVE OrderByDateAsc(_)
\* the lists the query may return for orderBy date asc: rows in ascending
\* date order, rows of equal date in any order
OrderByDateAsc(b) ==
    IF BagToSet(b) = { } THEN { << >> }
    ELSE LET rows == BagToSet(b)
             first == { r \in rows : \A q \in rows : r.date <= q.date }
         IN  UNION { { << r >> \o rest : rest \in OrderByDateAsc(b (-) SetToBag({r})) } :
                     r \in first }

findMany(table, w) == OrderByDateAsc(SelectRows(table, w))

RECURSIVE AnyOrder(_)
\* the rows of a bag as a list, in every order
AnyOrder(b) ==
    IF BagToSet(b) = { } THEN { << >> }
    ELSE UNION { { << r >> \o rest : rest \in AnyOrder(b (-) SetToBag({r})) } :
                 r \in BagToSet(b) }

\* a source that does not honour orderBy (a mocked or replaced findMany)
findManyUnordered(table, w) == AnyOrder(SelectRows(table, w))

(***************************************************************************)
(* Insertion-ordered Map<string, V>: a sequence of [key, val] entries.     *)
(***************************************************************************)
MapHas(m, k) == \E i \in 1..Len(m) : m[i].key = k

MapGet(m, k, default) ==
    IF MapHas(m, k)
    THEN m[CHOOSE i \in 1..Len(m) : m[i].key = k].val
    ELSE default

\* variant: a new key goes to the front of the map
MapSet_NewKeyFirst(m, k, v) ==
    IF MapHas(m, k)
    THEN [i \in 1..Len(m) |-> IF m[i].key = k THEN [key |-> k, val |-> v] ELSE m[i]]
    ELSE << [key |-> k, val |-> v] >> \o m

MapSet(m, k, v) ==
    IF MapHas(m, k)
    THEN [i \in 1..Len(m) |-> IF m[i].key = k THEN [key |-> k, val |-> v] ELSE m[i]]
    ELSE Append(m, [key |-> k, val |-> v])

RECURSIVE SumSeq(_)
\* xs.reduce((a, b) => a + b, 0)
SumSeq(xs) == IF xs = << >> THEN 0 ELSE Head(xs) + SumSeq(Tail(xs))

(***************************************************************************)
(* Date-range normaliser (server/http/date-range.ts).  The file declares   *)
(* buildUtcRangeExclusive twice; the later declaration is the one in       *)
(* force and the one modelled here.                                        *)
(***************************************************************************)
InvalidDateRangeMsg == "Invalid date range: 'from' date must be before or equal to 'to' date"
InvalidRangeMsg == "Invalid range"
NoError == ""

\* variant: the check never throws
validateDateRange_Never(from, to) == FALSE

\* TRUE iff validateDateRange(from, to) throws
validateDateRange(from, to) == GtTime(from, to)

\* d.setUTCDate(dayOfMonth): same month and time of day, day of month set,
\* overflowing into the next month
SetUTCDate(t, dayOfMonth) ==
    LET c == UTCFields(t)
    IN  (DaysOfCivil(c.y, c.m, 1) + dayOfMonth - 1) * HoursPerDay + UTCHours(t)

\* variant: the upper bound is returned as given, not advanced by a day
buildUtcRangeExclusive_NoAdvance(fromIso, toIso) ==
    LET from == DateParse(fromIso)
        to == DateParse(toIso)
    IN  IF from = NaN \/ to = NaN
        THEN [error |-> InvalidRangeMsg, from |-> NaN, toExclusive |-> NaN]
        ELSE IF GtTime(from, to)
        THEN [error |-> InvalidDateRangeMsg, from |-> NaN, toExclusive |-> NaN]
        ELSE [error |-> NoError, from |-> from, toExclusive |-> to]

\* variant: the upper bound is advanced only when `to` is a UTC midnight
buildUtcRangeExclusive_MidnightOnly(fromIso, toIso) ==
    LET from == DateParse(fromIso)
        to == DateParse(toIso)
    IN  IF from = NaN \/ to = NaN
        THEN [error |-> InvalidRangeMsg, from |-> NaN, toExclusive |-> NaN]
        ELSE IF validateDateRange(from, to)
        THEN [error |-> InvalidDateRangeMsg, from |-> NaN, toExclusive |-> NaN]
        ELSE [error |-> NoError, from |-> from,
              toExclusive |-> IF UTCHours(to) = 0
                              THEN SetUTCDate(to, UTCFields(to).d + 1) ELSE to]

\* the result is [error, from, toExclusive]; error # NoError is a throw
buildUtcRangeExclusive(fromIso, toIso) ==
    LET from == DateParse(fromIso)
        to == DateParse(toIso)
    IN  IF from = NaN \/ to = NaN
        THEN [error |-> InvalidRangeMsg, from |-> NaN, toExclusive |-> NaN]
        ELSE IF validateDateRange(from, to)
        THEN [error |-> InvalidDateRangeMsg, from |-> NaN, toExclusive |-> NaN]
        ELSE [error |-> NoError, from |-> from,
              toExclusive |-> SetUTCDate(to, UTCFields(to).d + 1)]

(***************************************************************************)
(* Tabular report (server/reports/financial-reports.ts).                   *)
(***************************************************************************)
ReportGranularity == { "day", "month", "all" }
ChartGranularity == { "day", "week", "month" }

\* variant: all is not recognised and is keyed like day
toPeriod_AllAsDay(date, granularity) ==
    LET c == UTCFields(date)
        y == DigitsOf(c.y)
        m == PadStart(DigitsOf(c.m), 2, Ch0)
    IN  IF granularity = "month" THEN y \o << ChDash >> \o m
        ELSE y \o << ChDash >> \o m \o << ChDash >>
               \o PadStart(DigitsOf(c.d), 2, Ch0)

toPeriod(date, granularity) ==
    IF granularity = "all" THEN StrAll
    ELSE LET c == UTCFields(date)
             y == DigitsOf(c.y)
             m == PadStart(DigitsOf(c.m), 2, Ch0)
         IN  IF granularity = "month" THEN y \o << ChDash >> \o m
             ELSE y \o << ChDash >> \o m \o << ChDash >>
                    \o PadStart(DigitsOf(c.d), 2, Ch0)

\* variant: the range is never rejected
ReportRangeInvalid_Never(from, to) == FALSE

\* the guard of the throw: both bounds given and from after to
ReportRangeInvalid(from, to) ==
    from # { } /\ to # { } /\ \E f \in from, t \in to : GtTime(f, t)

\* variant: the upper bound is left out of the filter
ReportWhere_NoUpper(from, to) ==
    IF from # { } \/ to # { }
    THEN { [gte |-> from, lte |-> { }, lt |-> { }] }
    ELSE { }

\* the where clause of the query
ReportWhere(from, to) ==
    IF from # { } \/ to # { }
    THEN { [gte |-> from, lte |-> to, lt |-> { }] }
    ELSE NoFilter

\* variant: the balance is that of the last transaction alone
ReportBalanceStep_LastOnly(balance, t) ==
    IF t.type = "INCOME" THEN t.amount ELSE 0 - t.amount

\* variant: every amount is added, whatever the type
ReportBalanceStep_AlwaysAdd(balance, t) == balance + t.amount

\* balance after the transaction t
ReportBalanceStep(balance, t) ==
    IF t.type = "INCOME" THEN balance + t.amount ELSE balance - t.amount

\* variant: the bucket is overwritten instead of accumulated
ReportBucketStep_Overwrite(map, t, granularity) ==
    LET key == toPeriod(t.date, granularity)
        curr == [income |-> 0, expense |-> 0]
    IN  MapSet(map, key,
               IF t.type = "INCOME"
               THEN [curr EXCEPT !.income = @ + t.amount]
               ELSE [curr EXCEPT !.expense = @ + t.amount])

\* the bucket map after the transaction t
ReportBucketStep(map, t, granularity) ==
    LET key == toPeriod(t.date, granularity)
        curr == MapGet(map, key, [income |-> 0, expense |-> 0])
    IN  MapSet(map, key,
               IF t.type = "INCOME"
               THEN [curr EXCEPT !.income = @ + t.amount]
               ELSE [curr EXCEPT !.expense = @ + t.amount])

ReportSeriesEntry(e) ==
    [period |-> e.key, income |-> e.val.income, expense |-> e.val.expense,
     net |-> e.val.income - e.val.expense]

\* variant: an empty report gets one series entry of zeros
ReportResult_ZeroEntry(p, balance, map) ==
    [balance |-> balance,
     currency |-> StrCOP,
     from |-> { ToISOString(f) : f \in p.from },
     to |-> { ToISOString(t) : t \in p.to },
     granularity |-> p.granularity,
     series |-> IF map = << >>
                THEN << [period |-> StrAll, income |-> 0, expense |-> 0, net |-> 0] >>
                ELSE [i \in 1..Len(map) |-> ReportSeriesEntry(map[i])]]

ReportResult(p, balance, map) ==
    [balance |-> balance,
     currency |-> StrCOP,
     from |-> { ToISOString(f) : f \in p.from },
     to |-> { ToISOString(t) : t \in p.to },
     granularity |-> p.granularity,
     series |-> [i \in 1..Len(map) |-> ReportSeriesEntry(map[i])]]

(***************************************************************************)
(* CSV encoder (server/reports/financial-report-csv.ts).                   *)
(***************************************************************************)
ChComma == 44
ChQuote == 34
ChLF == 10
ChCR == 13
ChMinus == 45
ChLetterA == 97

StrCurrency == << 99, 117, 114, 114, 101, 110, 99, 121 >>
StrGranularity == << 103, 114, 97, 110, 117, 108, 97, 114, 105, 116, 121 >>
StrFrom == << 102, 114, 111, 109 >>
StrTo == << 116, 111 >>
StrBalance == << 98, 97, 108, 97, 110, 99, 101 >>
StrPeriod == << 112, 101, 114, 105, 111, 100 >>
StrIncome == << 105, 110, 99, 111, 109, 101 >>
StrExpense == << 101, 120, 112, 101, 110, 115, 101 >>
StrNet == << 110, 101, 116 >>

\* String(n) for an integer n
StringOfNumber(n) == IF n < 0 THEN << ChMinus >> \o DigitsOf(0 - n) ELSE DigitsOf(n)

\* the characters of a granularity value
StringOfGranularity(g) ==
    IF g = "day" THEN StrDay ELSE IF g = "month" THEN StrMonth ELSE StrAll

\* v ?? "" for an optional string
OrEmpty(v) == IF v = { } THEN StrEmpty ELSE CHOOSE x \in v : TRUE

RECURSIVE ReplaceQuotes(_)
\* s.replace(/"/g, '""')
ReplaceQuotes(s) ==
    IF s = << >> THEN << >>
    ELSE (IF Head(s) = ChQuote THEN << ChQuote, ChQuote >> ELSE << Head(s) >>)
           \o ReplaceQuotes(Tail(s))

\* variant: embedded quotes are left single
esc_NoDoubling(s) ==
    LET needsQuotes == \E i \in 1..Len(s) : s[i] \in { ChQuote, ChComma, ChLF, ChCR }
    IN  IF needsQuotes THEN << ChQuote >> \o s \o << ChQuote >> ELSE s

\* esc, on the string String(v ?? "") of its argument
esc(s) ==
    LET needsQuotes == \E i \in 1..Len(s) : s[i] \in { ChQuote, ChComma, ChLF, ChCR }
        quoted == ReplaceQuotes(s)
    IN  IF needsQuotes THEN << ChQuote >> \o quoted \o << ChQuote >> ELSE quoted

RECURSIVE Join(_, _)
\* parts.join(sep)
Join(parts, sep) ==
    IF parts = << >> THEN << >>
    ELSE IF Len(parts) = 1 THEN parts[1]
    ELSE parts[1] \o sep \o Join(Tail(parts), sep)

\* variant: the balance line comes first
CsvMetaLines_BalanceFirst(report) ==
    LET meta == << << StrBalance, StringOfNumber(report.balance) >>,
                   << StrCurrency, report.currency >>,
                   << StrGranularity, StringOfGranularity(report.granularity) >>,
                   << StrFrom, OrEmpty(report.from) >>,
                   << StrTo, OrEmpty(report.to) >> >>
    IN  [i \in 1..Len(meta) |-> esc(meta[i][1]) \o << ChComma >> \o esc(meta[i][2])]

\* meta and metaLines
CsvMetaLines(report) ==
    LET meta == << << StrCurrency, report.currency >>,
                   << StrGranularity, StringOfGranularity(report.granularity) >>,
                   << StrFrom, OrEmpty(report.from) >>,
                   << StrTo, OrEmpty(report.to) >>,
                   << StrBalance, StringOfNumber(report.balance) >> >>
    IN  [i \in 1..Len(meta) |-> esc(meta[i][1]) \o << ChComma >> \o esc(meta[i][2])]

CsvHeader == Join(<< StrPeriod, StrIncome, StrExpense, StrNet >>, << ChComma >>)

CsvRows(report) ==
    [i \in 1..Len(report.series) |->
       Join(<< esc(report.series[i].period),
               esc(StringOfNumber(report.series[i].income)),
               esc(StringOfNumber(report.series[i].expense)),
               esc(StringOfNumber(report.series[i].net)) >>, << ChComma >>)]

\* variant: no empty line between the metadata and the header
financialMovementsReportToCsv_NoBlankLine(report) ==
    Join(CsvMetaLines(report) \o << CsvHeader >> \o CsvRows(report), << ChLF >>)

financialMovementsReportToCsv(report) ==
    Join(CsvMetaLines(report) \o << StrEmpty >> \o << CsvHeader >> \o CsvRows(report),
         << ChLF >>)

(***************************************************************************)
(* Chart report (server/reports/financial-movements-chart.ts).             *)
(***************************************************************************)
\* variant: the week starts on the Sunday
bucketKeyUTC_SundayStart(date, granularity) ==
    LET c == UTCFields(date)
        utcMidnight == DaysOfCivil(c.y, c.m, c.d) * HoursPerDay
        dayOfWeek == UTCDay(utcMidnight)
        monday == SetUTCDate(utcMidnight, UTCFields(utcMidnight).d - dayOfWeek)
        mc == UTCFields(monday)
    IN  IF granularity = "month" THEN DigitsOf(c.y) \o << ChDash >> \o pad2(c.m)
        ELSE IF granularity = "day"
        THEN DigitsOf(c.y) \o << ChDash >> \o pad2(c.m) \o << ChDash >> \o pad2(c.d)
        ELSE DigitsOf(mc.y) \o << ChDash >> \o pad2(mc.m) \o << ChDash >> \o pad2(mc.d)

bucketKeyUTC(date, granularity) ==
    LET c == UTCFields(date)
        utcMidnight == DaysOfCivil(c.y, c.m, c.d) * HoursPerDay
        dayOfWeek == UTCDay(utcMidnight)
        diffToMonday == (dayOfWeek + 6) % 7
        monday == SetUTCDate(utcMidnight, UTCFields(utcMidnight).d - diffToMonday)
        mc == UTCFields(monday)
    IN  IF granularity = "month" THEN DigitsOf(c.y) \o << ChDash >> \o pad2(c.m)
        ELSE IF granularity = "day"
        THEN DigitsOf(c.y) \o << ChDash >> \o pad2(c.m) \o << ChDash >> \o pad2(c.d)
        ELSE DigitsOf(mc.y) \o << ChDash >> \o pad2(mc.m) \o << ChDash >> \o pad2(mc.d)

compareBucket(a, b) == IF StrLess(a, b) THEN -1 ELSE IF StrLess(b, a) THEN 1 ELSE 0

\* variant: the keys stay in insertion order
SortKeys_InsertionOrder(keys) == keys

RECURSIVE SortKeys(_)
\* keys.sort(compareBucket) for distinct keys
SortKeys(keys) ==
    IF keys = << >> THEN << >>
    ELSE LET rest == SortKeys(Tail(keys))
             k == Head(keys)
             before == SelectSeq(rest, LAMBDA q : compareBucket(q, k) < 0)
             after == SelectSeq(rest, LAMBDA q : compareBucket(q, k) >= 0)
         IN  before \o << k >> \o after

\* TRUE iff the builder's own range check throws
ChartRangeInvalid(from, to) == GtTime(DateParse(from), DateParse(to))

\* variant: the upper bound is inclusive
ChartWhere_Inclusive(range) ==
    { [gte |-> { range.from }, lte |-> { range.toExclusive }, lt |-> { }] }

\* the where clause of fetchFinancialTransactions for a normalised range
ChartWhere(range) ==
    { [gte |-> { range.from }, lte |-> { }, lt |-> { range.toExclusive }] }

\* variant: every amount is added to income, whatever the type
ChartBucketStep_AllIncome(buckets, tx, granularity) ==
    LET key == bucketKeyUTC(tx.date, granularity)
        current == MapGet(buckets, key, [income |-> 0, expense |-> 0, net |-> 0])
        added == [current EXCEPT !.income = @ + tx.amount]
    IN  MapSet(buckets, key, [added EXCEPT !.net = added.income - added.expense])

\* the bucket map after the transaction tx
ChartBucketStep(buckets, tx, granularity) ==
    LET key == bucketKeyUTC(tx.date, granularity)
        current == MapGet(buckets, key, [income |-> 0, expense |-> 0, net |-> 0])
        amount == tx.amount
        added == IF tx.type = "INCOME"
                 THEN [current EXCEPT !.income = @ + amount]
                 ELSE [current EXCEPT !.expense = @ + amount]
    IN  MapSet(buckets, key, [added EXCEPT !.net = added.income - added.expense])

\* variant: the net total is derived from the income total alone
ChartTotals_NetFromIncome(income, expense, net) ==
    [income |-> SumSeq(income), expense |-> SumSeq(expense), net |-> SumSeq(income)]

ChartTotals(income, expense, net) ==
    [income |-> SumSeq(income), expense |-> SumSeq(expense), net |-> SumSeq(net)]

ChartResult(p, buckets) ==
    LET labels == SortKeys([i \in 1..Len(buckets) |-> buckets[i].key])
        zero == [income |-> 0, expense |-> 0, net |-> 0]
        income == [i \in 1..Len(labels) |-> MapGet(buckets, labels[i], zero).income]
        expense == [i \in 1..Len(labels) |-> MapGet(buckets, labels[i], zero).expense]
        net == [i \in 1..Len(labels) |-> MapGet(buckets, labels[i], zero).net]
    IN  [meta |-> [from |-> p.from, to |-> p.to, granularity |-> p.granularity],
         labels |-> labels,
         series |-> [income |-> income, expense |-> expense, net |-> net],
         points |-> [i \in 1..Len(labels) |->
                       [label |-> labels[i], income |-> income[i],
                        expense |-> expense[i], net |-> net[i]]],
         totals |-> ChartTotals(income, expense, net),
         datasets |-> << [key |-> "income", label |-> "Income", data |-> income],
                         [key |-> "expense", label |-> "Expenses", data |-> expense],
                         [key |-> "net", label |-> "Net", data |-> net] >>]

(***************************************************************************)
(* State.                                                                  *)
(***************************************************************************)
VARIABLES
    db,         \* the transaction table: a bag of rows
    clients,    \* the request slots that are served
    pc,         \* per request: idle, awaiting, folding, done, thrown
    params,     \* per request: the builder called and its parameters
    where,      \* per request: the where clause of the query it issued
    queries,    \* per request: number of findMany calls it issued
    txs,        \* per request: the list the query returned
    idx,        \* per request: number of list elements folded so far
    balance,    \* per request: the balance accumulator (tabular)
    buckets,    \* per request: the bucket map
    result,     \* per request: the returned report
    err,        \* per request: the message of the thrown error
    rangeArgs,  \* the arguments of the last direct normaliser call
    rangeRes,   \* the outcome of the last direct normaliser call
    dates,      \* per chart request: the locals fromDate and toDate
    call,       \* the last direct call of a pure function, with its outcome
    query,      \* per request: the granularity of the HTTP query, if any
    rejected,   \* per request: the error the source rejected its query with
    req,        \* per request: the HTTP request its handler was called with
    res,        \* per request: the Allow header and the responses written
    lookups,    \* per request: number of user-table queries it issued
    authUser,   \* per request: the user requireAuthOr401 returned, if any
    hpc         \* per request: the position of its HTTP handler

\* the state of the HTTP handlers
httpVars == << hpc, req, res, lookups, authUser >>

vars == << db, clients, pc, params, where, queries, txs, idx, balance,
           buckets, result, err, rangeArgs, rangeRes, dates, call, query,
           rejected, httpVars >>

NoParams == [kind |-> "none"]
NoResult == [kind |-> "none"]
NoDates == [fromDate |-> NaN, toDate |-> NaN]
NoCall == [fn |-> "none"]
NoQuery == "none"
NoReq == [endpoint |-> "none"]
NoRes == [allow |-> { }, writes |-> << >>]
NoRange == [error |-> "not called", from |-> NaN, toExclusive |-> NaN]

IsoInputs == { ToISOString(t) : t \in Times } \cup { StrGarbage }
OptTimes == { { } } \cup { { t } : t \in Times }

RangeInputs ==
    { ToISOString(t) : t \in RangeTimes }
      \cup { ToDateOnly(t) : t \in RangeTimes }
      \cup { StrGarbage, StrEmpty }

InitRequests ==
    /\ pc = [r \in Reqs |-> "idle"]
    /\ params = [r \in Reqs |-> NoParams]
    /\ where = [r \in Reqs |-> NoFilter]
    /\ queries = [r \in Reqs |-> 0]
    /\ txs = [r \in Reqs |-> << >>]
    /\ idx = [r \in Reqs |-> 0]
    /\ balance = [r \in Reqs |-> 0]
    /\ buckets = [r \in Reqs |-> << >>]
    /\ result = [r \in Reqs |-> NoResult]
    /\ err = [r \in Reqs |-> NoError]
    /\ rangeArgs = << StrEmpty, StrEmpty >>
    /\ rangeRes = NoRange
    /\ dates = [r \in Reqs |-> NoDates]
    /\ call = NoCall
    /\ query = [r \in Reqs |-> NoQuery]
    /\ rejected = [r \in Reqs |-> NoError]
    /\ req = [r \in Reqs |-> NoReq]
    /\ res = [r \in Reqs |-> NoRes]
    /\ lookups = [r \in Reqs |-> 0]
    /\ authUser = [r \in Reqs |-> { }]
    /\ hpc = [r \in Reqs |-> "idle"]

\* one request at a time, over a table of enum-typed rows
Init ==
    /\ db \in TablesUpTo(RowsOf(TransactionType), MaxTx)
    /\ clients = { 1 }
    /\ InitRequests

(***************************************************************************)
(* buildFinancialMovementsReport.                                          *)
(***************************************************************************)
\* the call up to the await of findMany: range check, then the query
CallReport(r, from, to, granularity) ==
    /\ r \in clients
    /\ pc[r] = "idle"
    /\ params' = [params EXCEPT ![r] =
                    [kind |-> "report", from |-> from, to |-> to,
                     granularity |-> granularity]]
    /\ IF ReportRangeInvalid(from, to)
       THEN /\ pc' = [pc EXCEPT ![r] = "thrown"]
            /\ err' = [err EXCEPT ![r] = InvalidDateRangeMsg]
            /\ UNCHANGED << where, queries >>
       ELSE /\ pc' = [pc EXCEPT ![r] = "awaiting"]
            /\ where' = [where EXCEPT ![r] = ReportWhere(from, to)]
            /\ queries' = [queries EXCEPT ![r] = @ + 1]
            /\ UNCHANGED err
    /\ UNCHANGED << db, clients, txs, idx, balance, buckets, result, rangeArgs,
                    rangeRes, dates, call, rejected >>

\* the query resolves with the rows selected by the where clause
FindManyResolve(r) ==
    /\ pc[r] = "awaiting"
    /\ \E rows \in findMany(db, where[r]) :
         txs' = [txs EXCEPT ![r] = rows]
    /\ pc' = [pc EXCEPT ![r] = "folding"]
    /\ idx' = [idx EXCEPT ![r] = 0]
    /\ balance' = [balance EXCEPT ![r] = 0]
    /\ buckets' = [buckets EXCEPT ![r] = << >>]
    /\ UNCHANGED << db, clients, params, where, queries, result, err, rangeArgs, rangeRes,
                    dates, call, query, rejected, httpVars >>

\* variant: the bucket map is one object shared by every request
FoldReport_SharedMap(r) ==
    /\ pc[r] = "folding"
    /\ params[r].kind = "report"
    /\ idx[r] < Len(txs[r])
    /\ LET t == txs[r][idx[r] + 1]
       IN  /\ balance' = [balance EXCEPT ![r] = ReportBalanceStep(@, t)]
           /\ buckets' = [q \in Reqs |->
                            ReportBucketStep(buckets[r], t, params[r].granularity)]
    /\ idx' = [idx EXCEPT ![r] = @ + 1]
    /\ UNCHANGED << db, clients, pc, params, where, queries, txs, result, err,
                    rangeArgs, rangeRes,
                    dates, call, query, rejected, httpVars >>

\* one iteration of the loop over txs
FoldReport(r) ==
    /\ pc[r] = "folding"
    /\ params[r].kind = "report"
    /\ idx[r] < Len(txs[r])
    /\ LET t == txs[r][idx[r] + 1]
       IN  /\ balance' = [balance EXCEPT ![r] = ReportBalanceStep(@, t)]
           /\ buckets' = [buckets EXCEPT ![r] =
                            ReportBucketStep(@, t, params[r].granularity)]
    /\ idx' = [idx EXCEPT ![r] = @ + 1]
    /\ UNCHANGED << db, clients, pc, params, where, queries, txs, result, err,
                    rangeArgs, rangeRes,
                    dates, call, query, rejected, httpVars >>

\* the series is built from the map and the report is returned
ReturnReport(r) ==
    /\ pc[r] = "folding"
    /\ params[r].kind = "report"
    /\ idx[r] = Len(txs[r])
    /\ result' = [result EXCEPT ![r] =
                    [kind |-> "report"] @@ ReportResult(params[r], balance[r], buckets[r])]
    /\ pc' = [pc EXCEPT ![r] = "done"]
    /\ UNCHANGED << db, clients, params, where, queries, txs, idx, balance, buckets,
                    err, rangeArgs, rangeRes,
                    dates, call, query, rejected, httpVars >>

(***************************************************************************)
(* buildFinancialMovementsChart.                                           *)
(***************************************************************************)
\* the call up to the await of findMany: the builder's range check, then
\* fetchFinancialTransactions normalises the range and issues the query
CallChart(r, from, to, granularity) ==
    /\ r \in clients
    /\ pc[r] = "idle"
    /\ params' = [params EXCEPT ![r] =
                    [kind |-> "chart", from |-> from, to |-> to,
                     granularity |-> granularity]]
    /\ dates' = [dates EXCEPT ![r] =
                   [fromDate |-> DateParse(from), toDate |-> DateParse(to)]]
    /\ LET range == buildUtcRangeExclusive(from, to)
           thrown == IF ChartRangeInvalid(from, to) THEN InvalidDateRangeMsg
                     ELSE range.error
       IN  IF thrown # NoError
           THEN /\ pc' = [pc EXCEPT ![r] = "thrown"]
                /\ err' = [err EXCEPT ![r] = thrown]
                /\ UNCHANGED << where, queries >>
           ELSE /\ pc' = [pc EXCEPT ![r] = "awaiting"]
                /\ where' = [where EXCEPT ![r] = ChartWhere(range)]
                /\ queries' = [queries EXCEPT ![r] = @ + 1]
                /\ UNCHANGED err
    /\ UNCHANGED << db, clients, txs, idx, balance, buckets, result, rangeArgs,
                    rangeRes, call, rejected >>

\* one iteration of the loop over rows
FoldChart(r) ==
    /\ pc[r] = "folding"
    /\ params[r].kind = "chart"
    /\ idx[r] < Len(txs[r])
    /\ buckets' = [buckets EXCEPT ![r] =
                     ChartBucketStep(@, txs[r][idx[r] + 1], params[r].granularity)]
    /\ idx' = [idx EXCEPT ![r] = @ + 1]
    /\ UNCHANGED << db, clients, pc, params, where, queries, txs, balance, result, err,
                    rangeArgs, rangeRes,
                    dates, call, query, rejected, httpVars >>

\* labels, series, points, totals and datasets are built and returned
ReturnChart(r) ==
    /\ pc[r] = "folding"
    /\ params[r].kind = "chart"
    /\ idx[r] = Len(txs[r])
    /\ result' = [result EXCEPT ![r] =
                    [kind |-> "chart"] @@ ChartResult(params[r], buckets[r])]
    /\ pc' = [pc EXCEPT ![r] = "done"]
    /\ UNCHANGED << db, clients, params, where, queries, txs, idx, balance, buckets,
                    err, rangeArgs, rangeRes,
                    dates, call, query, rejected, httpVars >>

\* the served request slots in which no call is in progress
Idle == { r \in clients : pc[r] = "idle" }

Next ==
    \/ \E r \in Idle, from \in OptTimes, to \in OptTimes, g \in ReportGranularity :
         CallReport(r, from, to, g) /\ UNCHANGED << query, httpVars >>
    \/ \E r \in Idle, from \in IsoInputs, to \in IsoInputs, g \in ChartGranularity :
         CallChart(r, from, to, g) /\ UNCHANGED << query, httpVars >>
    \/ \E r \in Reqs : FindManyResolve(r)
    \/ \E r \in Reqs : FoldReport(r)
    \/ \E r \in Reqs : ReturnReport(r)
    \/ \E r \in Reqs : FoldChart(r)
    \/ \E r \in Reqs : ReturnChart(r)

Spec == Init /\ [][Next]_vars

(***************************************************************************)
(* The date-range normaliser called on its own, on any pair of strings.    *)
(***************************************************************************)
CallBuildUtcRangeExclusive(fromIso, toIso) ==
    /\ rangeArgs' = << fromIso, toIso >>
    /\ rangeRes' = buildUtcRangeExclusive(fromIso, toIso)
    /\ UNCHANGED << db, clients, pc, params, where, queries, txs, idx, balance,
                    buckets, result, err, dates, call, query, rejected, httpVars >>

InitRange ==
    /\ db = EmptyBag
    /\ clients = { }
    /\ InitRequests

NextRange ==
    \E fromIso \in RangeInputs, toIso \in RangeInputs :
        CallBuildUtcRangeExclusive(fromIso, toIso)

SpecRange == InitRange /\ [][NextRange]_vars

(***************************************************************************)
(* The bucket-key functions called on their own, on any pair of instants.  *)
(* A behaviour is one call.                                                *)
(***************************************************************************)
CallBucketKeyUTC(t1, t2, granularity) ==
    /\ call = NoCall
    /\ call' = [fn |-> "bucketKeyUTC", granularity |-> granularity,
                t1 |-> t1, t2 |-> t2,
                k1 |-> bucketKeyUTC(t1, granularity),
                k2 |-> bucketKeyUTC(t2, granularity)]
    /\ UNCHANGED << db, clients, pc, params, where, queries, txs, idx, balance,
                    buckets, result, err, rangeArgs, rangeRes, dates, query, rejected, httpVars >>

CallToPeriod(t1, t2, granularity) ==
    /\ call = NoCall
    /\ call' = [fn |-> "toPeriod", granularity |-> granularity,
                t1 |-> t1, t2 |-> t2,
                k1 |-> toPeriod(t1, granularity),
                k2 |-> toPeriod(t2, granularity)]
    /\ UNCHANGED << db, clients, pc, params, where, queries, txs, idx, balance,
                    buckets, result, err, rangeArgs, rangeRes, dates, query, rejected, httpVars >>

NextKeys ==
    \/ \E t1 \in KeyTimes, t2 \in KeyTimes, g \in ChartGranularity :
         CallBucketKeyUTC(t1, t2, g)
    \/ \E t1 \in KeyTimes, t2 \in KeyTimes, g \in ReportGranularity :
         CallToPeriod(t1, t2, g)

SpecKeys == InitRange /\ [][NextKeys]_vars

(***************************************************************************)
(* The two report endpoints, for a GET of an administrator whose query     *)
(* string parsed: pages/api/v1/reports/financial-movements.csv.ts calls    *)
(* the tabular builder with the query's granularity, and                   *)
(* pages/api/v1/reports/financial-movements-chart.ts calls the chart       *)
(* builder with the normalised granularity after requireIsoRange.          *)
(***************************************************************************)
\* the granularity values of the query string
FinancialMovementsQueryGranularity == { "day", "month", "all" }

\* variant: the query value is passed on as it is
normalizeFinancialGranularity_Identity(value) == value

normalizeFinancialGranularity(value) == IF value = "all" THEN "month" ELSE value

\* toIsoOrUndefined of an optional Date
toIsoOrUndefined(value) == { ToISOString(t) : t \in value \ { NaN } }

\* TRUE iff validateIsoRange throws
validateIsoRange(fromIso, toIso) == GtTime(DateParse(fromIso), DateParse(toIso))

InvalidDateRange400 == "Invalid date range"

RequestCsv(r, from, to, granularity) ==
    /\ CallReport(r, from, to, granularity)
    /\ query' = [query EXCEPT ![r] = granularity]

RequestChart(r, from, to, granularity) ==
    LET fromIso == toIsoOrUndefined(from)
        toIso == toIsoOrUndefined(to)
    IN  /\ query' = [query EXCEPT ![r] = granularity]
        /\ IF fromIso = { } \/ toIso = { }
           THEN \* requireIsoRange returns null: the handler answers 400
                /\ r \in clients
                /\ pc[r] = "idle"
                /\ pc' = [pc EXCEPT ![r] = "refused"]
                /\ err' = [err EXCEPT ![r] = InvalidDateRange400]
                /\ UNCHANGED << db, clients, params, where, queries, txs, idx, balance,
                                buckets, result, rangeArgs, rangeRes, dates, call, rejected >>
           ELSE LET f == CHOOSE x \in fromIso : TRUE
                    t == CHOOSE x \in toIso : TRUE
                IN  IF validateIsoRange(f, t)
                    THEN \* requireIsoRange throws
                         /\ r \in clients
                         /\ pc[r] = "idle"
                         /\ pc' = [pc EXCEPT ![r] = "thrown"]
                         /\ err' = [err EXCEPT ![r] = InvalidDateRangeMsg]
                         /\ UNCHANGED << db, clients, params, where, queries, txs, idx,
                                         balance, buckets, result, rangeArgs, rangeRes,
                                         dates, call, rejected >>
                    ELSE CallChart(r, f, t, normalizeFinancialGranularity(granularity))

NextApi ==
    \/ \E r \in Idle, from \in OptTimes, to \in OptTimes,
            g \in FinancialMovementsQueryGranularity :
         RequestCsv(r, from, to, g) /\ UNCHANGED httpVars
    \/ \E r \in Idle, from \in OptTimes, to \in OptTimes,
            g \in FinancialMovementsQueryGranularity :
         RequestChart(r, from, to, g) /\ UNCHANGED httpVars
    \/ \E r \in Reqs : FindManyResolve(r)
    \/ \E r \in Reqs : FoldReport(r)
    \/ \E r \in Reqs : ReturnReport(r)
    \/ \E r \in Reqs : FoldChart(r)
    \/ \E r \in Reqs : ReturnChart(r)

SpecApi == Init /\ [][NextApi]_vars

(***************************************************************************)
(* A source that returns the selected rows in any order; the chart is      *)
(* requested over the whole span of the instants, the tabular report       *)
(* without bounds.                                                         *)
(***************************************************************************)
FindManyResolveUnordered(r) ==
    /\ pc[r] = "awaiting"
    /\ \E rows \in findManyUnordered(db, where[r]) :
         txs' = [txs EXCEPT ![r] = rows]
    /\ pc' = [pc EXCEPT ![r] = "folding"]
    /\ idx' = [idx EXCEPT ![r] = 0]
    /\ balance' = [balance EXCEPT ![r] = 0]
    /\ buckets' = [buckets EXCEPT ![r] = << >>]
    /\ UNCHANGED << db, clients, params, where, queries, result, err, rangeArgs, rangeRes,
                    dates, call, query, rejected, httpVars >>

FirstInstant == CHOOSE t \in Times : \A u \in Times : t <= u
LastInstant == CHOOSE t \in Times : \A u \in Times : u <= t

NextUnordered ==
    \/ \E r \in Idle, g \in ChartGranularity :
         CallChart(r, ToISOString(FirstInstant), ToISOString(LastInstant), g)
           /\ UNCHANGED << query, httpVars >>
    \/ \E r \in Idle, g \in ReportGranularity :
         CallReport(r, { }, { }, g) /\ UNCHANGED << query, httpVars >>
    \/ \E r \in Reqs : FindManyResolveUnordered(r)
    \/ \E r \in Reqs : FoldChart(r)
    \/ \E r \in Reqs : ReturnChart(r)
    \/ \E r \in Reqs : FoldReport(r)
    \/ \E r \in Reqs : ReturnReport(r)

SpecUnordered == Init /\ [][NextUnordered]_vars

(***************************************************************************)
(* The aggregation loop of buildFinancialMovementsReport run on one        *)
(* fetched list with each granularity.  A behaviour is one run.            *)
(***************************************************************************)
RECURSIVE ReportBuckets(_, _, _)
\* the bucket map after the loop over the rest of a list
ReportBuckets(map, list, granularity) ==
    IF list = << >> THEN map
    ELSE ReportBuckets(ReportBucketStep(map, Head(list), granularity),
                       Tail(list), granularity)

\* variant: the series lists the map's entries from the last inserted to the first
ReportSeries_NewestFirst(list, granularity) ==
    LET map == ReportBuckets(<< >>, list, granularity)
        n == Len(map)
    IN  [i \in 1..n |-> ReportSeriesEntry(map[n + 1 - i])]

\* the series of the report of a list
ReportSeries(list, granularity) ==
    LET map == ReportBuckets(<< >>, list, granularity)
    IN  [i \in 1..Len(map) |-> ReportSeriesEntry(map[i])]

\* rows dated within three days of two months
SeriesRows == [amount : { MaxAmount }, date : RangeTimes, type : TransactionType]

RECURSIVE ListsByDateAsc(_)
\* the lists of at most n such rows in ascending date order
ListsByDateAsc(n) ==
    IF n = 0 THEN { << >> }
    ELSE LET shorter == ListsByDateAsc(n - 1)
         IN  shorter \cup
               UNION { { Append(l, r) :
                           r \in { q \in SeriesRows :
                                      l = << >> \/ l[Len(l)].date <= q.date } } :
                       l \in { x \in shorter : Len(x) = n - 1 } }

\* the lists a source of at most MaxList such rows returns
SeriesLists == ListsByDateAsc(MaxList)

CallReportSeries(list) ==
    /\ call = NoCall
    /\ call' = [fn |-> "series", list |-> list,
                day |-> ReportSeries(list, "day"),
                month |-> ReportSeries(list, "month"),
                all |-> ReportSeries(list, "all")]
    /\ UNCHANGED << db, clients, pc, params, where, queries, txs, idx, balance,
                    buckets, result, err, rangeArgs, rangeRes, dates, query, rejected, httpVars >>

NextSeries == \E list \in SeriesLists : CallReportSeries(list)

SpecSeries == InitRange /\ [][NextSeries]_vars

(***************************************************************************)
(* The CSV encoder and its field escaping called on their own.  A field is *)
(* any string of at most MaxFieldLen characters out of a letter, the       *)
(* comma, the double quote, the line feed and the carriage return.  A      *)
(* report has one such string as the period of its series entries, and     *)
(* that string or COP as its currency and as the bounds it has.  A         *)
(* behaviour is one call.                                                  *)
(***************************************************************************)
FieldChars == { ChLetterA, ChComma, ChQuote, ChLF, ChCR }

RECURSIVE StringsUpTo(_)
StringsUpTo(n) ==
    IF n = 0 THEN { << >> }
    ELSE LET shorter == StringsUpTo(n - 1)
         IN  shorter \cup { Append(f, c) : f \in shorter, c \in FieldChars }

FieldStrings == StringsUpTo(MaxFieldLen)

\* a report of n series entries; entry i has income i and expense 2
CsvReport(metaField, periodField, n, hasFrom, hasTo, granularity) ==
    [balance |-> SumSeq([i \in 1..n |-> i - 2]),
     currency |-> metaField,
     from |-> IF hasFrom THEN { metaField } ELSE { },
     to |-> IF hasTo THEN { metaField } ELSE { },
     granularity |-> granularity,
     series |-> [i \in 1..n |->
                   [period |-> periodField, income |-> i, expense |-> 2, net |-> i - 2]]]

CallEsc(s) ==
    /\ call = NoCall
    /\ call' = [fn |-> "esc", s |-> s, out |-> esc(s)]
    /\ UNCHANGED << db, clients, pc, params, where, queries, txs, idx, balance,
                    buckets, result, err, rangeArgs, rangeRes, dates, query, rejected, httpVars >>

CallFinancialMovementsReportToCsv(report) ==
    /\ call = NoCall
    /\ call' = [fn |-> "csv", report |-> report,
                csv |-> financialMovementsReportToCsv(report)]
    /\ UNCHANGED << db, clients, pc, params, where, queries, txs, idx, balance,
                    buckets, result, err, rangeArgs, rangeRes, dates, query, rejected, httpVars >>

NextCsv ==
    \/ \E s \in FieldStrings : CallEsc(s)
    \/ \E p \in FieldStrings, wild \in BOOLEAN, n \in 0..MaxSeries,
            hasFrom \in BOOLEAN, hasTo \in BOOLEAN, g \in ReportGranularity :
         CallFinancialMovementsReportToCsv(
             CsvReport(IF wild THEN p ELSE StrCOP, p, n, hasFrom, hasTo, g))

SpecCsv == InitRange /\ [][NextCsv]_vars

(***************************************************************************)
(* buildFinancialMovementsReport called, and when the call has ended       *)
(* called again with the same parameters, over an unchanged table.         *)
(***************************************************************************)
FirstCaller == 1
SecondCaller == 2

\* the second call: the parameters of the first one
RepeatReport(r) ==
    /\ r = SecondCaller
    /\ pc[FirstCaller] \in { "done", "thrown" }
    /\ CallReport(r, params[FirstCaller].from, params[FirstCaller].to,
                  params[FirstCaller].granularity)
    /\ UNCHANGED << query, httpVars >>

InitTwice ==
    /\ db \in TablesUpTo(RowsOf(TransactionType), MaxTx)
    /\ clients = { FirstCaller, SecondCaller }
    /\ InitRequests

NextTwice ==
    \/ \E r \in Idle, from \in OptTimes, to \in OptTimes, g \in ReportGranularity :
         r = FirstCaller /\ CallReport(r, from, to, g) /\ UNCHANGED << query, httpVars >>
    \/ \E r \in Idle : RepeatReport(r)
    \/ \E r \in Reqs : FindManyResolve(r)
    \/ \E r \in Reqs : FoldReport(r)
    \/ \E r \in Reqs : ReturnReport(r)

SpecTwice == InitTwice /\ [][NextTwice]_vars

(***************************************************************************)
(* A source whose query can fail: the promise of findMany rejects and the  *)
(* await in the builder throws what it rejected with.  Neither builder has *)
(* a try around that await.                                                *)
(***************************************************************************)
SourceErrors == { "Can't reach database server", "Timed out fetching a new connection" }

\* variant: the builder catches the rejection and issues the query again
FindManyReject_Retry(r, e) ==
    /\ pc[r] = "awaiting"
    /\ rejected' = [rejected EXCEPT ![r] = e]
    /\ queries' = [queries EXCEPT ![r] = @ + 1]
    /\ UNCHANGED << db, clients, pc, params, where, txs, idx, balance, buckets, result,
                    err, rangeArgs, rangeRes, dates, call, query, httpVars >>

\* the query rejects with e: the builder's promise rejects with e
FindManyReject(r, e) ==
    /\ pc[r] = "awaiting"
    /\ rejected' = [rejected EXCEPT ![r] = e]
    /\ pc' = [pc EXCEPT ![r] = "thrown"]
    /\ err' = [err EXCEPT ![r] = e]
    /\ UNCHANGED << db, clients, params, where, queries, txs, idx, balance, buckets,
                    result, rangeArgs, rangeRes, dates, call, query, httpVars >>

NextFailing ==
    \/ \E r \in Idle, g \in ReportGranularity :
         CallReport(r, { }, { }, g) /\ UNCHANGED << query, httpVars >>
    \/ \E r \in Idle, g \in ChartGranularity :
         CallChart(r, ToISOString(FirstInstant), ToISOString(LastInstant), g)
           /\ UNCHANGED << query, httpVars >>
    \/ \E r \in Reqs, e \in SourceErrors : FindManyReject(r, e)
    \/ \E r \in Reqs : FindManyResolve(r)
    \/ \E r \in Reqs : FoldReport(r)
    \/ \E r \in Reqs : ReturnReport(r)
    \/ \E r \in Reqs : FoldChart(r)
    \/ \E r \in Reqs : ReturnChart(r)

SpecFailing == Init /\ [][NextFailing]_vars

(***************************************************************************)
(* Two builds in flight at once, tabular or chart, while transactions are  *)
(* created.  A build suspends at the await of findMany; the loop after it  *)
(* is taken one iteration at a time, which allows every interleaving the   *)
(* event loop allows and more.  The rows are dated at the first or the     *)
(* last instant; the tabular builds have no bounds and key by day or all,  *)
(* the chart builds span both instants and key by week or month.           *)
(***************************************************************************)
ConcurrentRows ==
    { row \in RowsOf(TransactionType) :
        row.date \in { FirstInstant, LastInstant } /\ row.amount = MaxAmount }

\* prisma.transaction.create of the transactions endpoint: one more row
CreateTransaction(row) ==
    /\ BagCardinality(db) < MaxTx
    /\ db' = db (+) SetToBag({ row })
    /\ UNCHANGED << clients, pc, params, where, queries, txs, idx, balance, buckets,
                    result, err, rangeArgs, rangeRes, dates, call, query, rejected, httpVars >>

InitConcurrent ==
    /\ db \in TablesUpTo(ConcurrentRows, MaxTx)
    /\ clients = { FirstCaller, SecondCaller }
    /\ InitRequests

NextConcurrent ==
    \/ \E r \in Idle, g \in { "day", "all" } :
         CallReport(r, { }, { }, g) /\ UNCHANGED << query, httpVars >>
    \/ \E r \in Idle, g \in { "week", "month" } :
         CallChart(r, ToISOString(FirstInstant), ToISOString(LastInstant), g)
           /\ UNCHANGED << query, httpVars >>
    \/ \E row \in ConcurrentRows : CreateTransaction(row)
    \/ \E r \in Reqs : FindManyResolve(r)
    \/ \E r \in Reqs : FoldReport(r)
    \/ \E r \in Reqs : ReturnReport(r)
    \/ \E r \in Reqs : FoldChart(r)
    \/ \E r \in Reqs : ReturnChart(r)

SpecConcurrent == InitConcurrent /\ [][NextConcurrent]_vars

(***************************************************************************)
(* A source that holds rows whose type is outside the enum.                *)
(***************************************************************************)
InitFaulty ==
    /\ db \in TablesUpTo(RowsOf(TransactionType \cup { UnknownType }), MaxTx)
    /\ clients = { 1 }
    /\ InitRequests

SpecFaulty == InitFaulty /\ [][Next]_vars

(***************************************************************************)
(* The HTTP handlers of the report endpoints (pages/api/v1/reports):       *)
(* financial-movements-chart, financial-movements.csv, financial-balance.  *)
(* A handler runs from one await to the next: the method check up to the   *)
(* await of getSession, the session up to the await of the user lookup,    *)
(* the lookup, then the role check and the validation up to the await      *)
(* inside the builder, then the builder, then the response.  What the      *)
(* environment gives (method, session, user row, query, source outcome) is *)
(* chosen at the step that reads it and kept in req.  A response write is  *)
(* a status and the message of its error body; the body of a 200 is the    *)
(* builder's report.                                                       *)
(***************************************************************************)
MaxEndpointTx == 1

HttpMethods == { "GET", "POST" }
ReportEndpoints == { "chart", "csv", "balance" }
UserIds == { "u1", "u2" }
Roles == { "ADMIN", "USER" }

\* getSession resolves with no session, with a session that has no user id
\* or with the session of a user (named by the id), or it rejects
Sessions == { "none", "anonymous", "throws" } \cup UserIds

\* prisma.user.findUnique resolves with the user's row (named by its role) or
\* with null, or it rejects
Lookups == Roles \cup { "missing", "throws" }

Unauthorized == "Unauthorized"
AccessDenied == "Access denied"
FORBIDDEN == "ERROR_MESSAGES.FORBIDDEN"
InvalidQueryParams == "Invalid query params"
FailedChart == "Failed to generate chart data"
FailedCsv == "Failed to generate CSV report"
FailedBalance == "Failed to get current balance"

\* every variable but those of the HTTP handlers
buildVars == << db, clients, pc, params, where, queries, txs, idx, balance, buckets,
                result, err, rangeArgs, rangeRes, dates, call, query, rejected >>

\* res.status(status).json({ error: { message } })
jsonError(resR, status, message) ==
    [resR EXCEPT !.writes = Append(@, [status |-> status, message |-> message])]

\* res.status(status).json(data), .send(data) or .end()
Send(resR, status) ==
    [resR EXCEPT !.writes = Append(@, [status |-> status, message |-> NoError])]

\* res.setHeader("Allow", value)
SetAllow(resR, value) == [resR EXCEPT !.allow = { value }]

\* error.message.includes("Invalid date range"), over the messages thrown
IncludesInvalidDateRange(message) ==
    message \in { InvalidDateRangeMsg, InvalidDateRange400 }

\* variant: every role is let through
requireRoleOr403_AnyRole(resR, user, roles) == [ok |-> TRUE, res |-> resR]

\* the returned flag and the response after the call
requireRoleOr403(resR, user, roles) ==
    IF user.role \notin roles
    THEN [ok |-> FALSE, res |-> jsonError(resR, 403, AccessDenied)]
    ELSE [ok |-> TRUE, res |-> resR]

TheUser(r) == CHOOSE u \in authUser[r] : TRUE

\* the handler is called: the method check, then requireAuthOr401 up to its
\* await of getSession
Handle(r, endpoint, method) ==
    /\ r \in clients
    /\ hpc[r] = "idle"
    /\ req' = [req EXCEPT ![r] = [endpoint |-> endpoint, method |-> method]]
    /\ IF method # "GET"
       THEN /\ res' = [res EXCEPT ![r] = Send(SetAllow(@, "GET"), 405)]
            /\ hpc' = [hpc EXCEPT ![r] = "responded"]
       ELSE /\ hpc' = [hpc EXCEPT ![r] = "session"]
            /\ UNCHANGED res
    /\ UNCHANGED << lookups, authUser, buildVars >>

\* getSession settles: requireAuthOr401 answers 401 and returns null, or
\* goes on to its await of the user lookup
GetSessionResolve(r, session) ==
    /\ hpc[r] = "session"
    /\ req' = [req EXCEPT ![r] = [session |-> session] @@ @]
    /\ IF session \in UserIds
       THEN /\ lookups' = [lookups EXCEPT ![r] = @ + 1]
            /\ hpc' = [hpc EXCEPT ![r] = "lookup"]
            /\ UNCHANGED res
       ELSE /\ res' = [res EXCEPT ![r] = jsonError(@, 401, Unauthorized)]
            /\ hpc' = [hpc EXCEPT ![r] = "responded"]
            /\ UNCHANGED lookups
    /\ UNCHANGED << authUser, buildVars >>

\* variant: a session whose user is not in the table is let in as a USER
FindUniqueResolve_FailOpen(r, found) ==
    /\ hpc[r] = "lookup"
    /\ req' = [req EXCEPT ![r] = [user |-> found] @@ @]
    /\ IF found # "throws"
       THEN /\ authUser' = [authUser EXCEPT ![r] =
                              { [id |-> req[r].session,
                                 role |-> IF found \in Roles THEN found ELSE "USER"] }]
            /\ hpc' = [hpc EXCEPT ![r] = "authed"]
            /\ UNCHANGED res
       ELSE /\ res' = [res EXCEPT ![r] = jsonError(@, 401, Unauthorized)]
            /\ hpc' = [hpc EXCEPT ![r] = "responded"]
            /\ UNCHANGED authUser
    /\ UNCHANGED << lookups, buildVars >>

\* the user lookup settles: requireAuthOr401 returns the user, or answers
\* 401 and returns null
FindUniqueResolve(r, found) ==
    /\ hpc[r] = "lookup"
    /\ req' = [req EXCEPT ![r] = [user |-> found] @@ @]
    /\ IF found \in Roles
       THEN /\ authUser' = [authUser EXCEPT ![r] =
                              { [id |-> req[r].session, role |-> found] }]
            /\ hpc' = [hpc EXCEPT ![r] = "authed"]
            /\ UNCHANGED res
       ELSE /\ res' = [res EXCEPT ![r] = jsonError(@, 401, Unauthorized)]
            /\ hpc' = [hpc EXCEPT ![r] = "responded"]
            /\ UNCHANGED authUser
    /\ UNCHANGED << lookups, buildVars >>

\* a report handler resumes with the user
IsAuthed(r) == hpc[r] = "authed" /\ req[r].endpoint \in ReportEndpoints

\* the role check fails: requireRoleOr403 answers, then the handler does
Forbid(r) ==
    /\ IsAuthed(r)
    /\ LET check == requireRoleOr403(res[r], TheUser(r), { "ADMIN" })
       IN  /\ ~check.ok
           /\ res' = [res EXCEPT ![r] = jsonError(check.res, 403, FORBIDDEN)]
    /\ hpc' = [hpc EXCEPT ![r] = "responded"]
    /\ UNCHANGED << req, lookups, authUser, buildVars >>

\* the role check passes and safeParse fails
RejectQuery(r) ==
    /\ IsAuthed(r)
    /\ req[r].endpoint \in { "chart", "csv" }
    /\ LET check == requireRoleOr403(res[r], TheUser(r), { "ADMIN" })
       IN  /\ check.ok
           /\ res' = [res EXCEPT ![r] = jsonError(check.res, 400, InvalidQueryParams)]
    /\ req' = [req EXCEPT ![r] = [parsed |-> FALSE] @@ @]
    /\ hpc' = [hpc EXCEPT ![r] = "responded"]
    /\ UNCHANGED << lookups, authUser, buildVars >>

\* the role check passes and safeParse gives from, to and granularity: the
\* chart handler up to the await inside buildFinancialMovementsChart
ChartQuery(r, from, to, granularity) ==
    /\ IsAuthed(r)
    /\ req[r].endpoint = "chart"
    /\ requireRoleOr403(res[r], TheUser(r), { "ADMIN" }).ok
    /\ req' = [req EXCEPT ![r] = [parsed |-> TRUE, from |-> from, to |-> to] @@ @]
    /\ RequestChart(r, from, to, granularity)
    /\ LET fromIso == toIsoOrUndefined(from)
           toIso == toIsoOrUndefined(to)
       IN  IF fromIso = { } \/ toIso = { }
           THEN /\ res' = [res EXCEPT ![r] = jsonError(@, 400, InvalidDateRange400)]
                /\ hpc' = [hpc EXCEPT ![r] = "responded"]
           ELSE IF validateIsoRange(CHOOSE x \in fromIso : TRUE,
                                    CHOOSE x \in toIso : TRUE)
           THEN \* requireIsoRange throws outside the try: the handler rejects
                /\ hpc' = [hpc EXCEPT ![r] = "crashed"]
                /\ UNCHANGED res
           ELSE /\ hpc' = [hpc EXCEPT ![r] = "building"]
                /\ UNCHANGED res
    /\ UNCHANGED << lookups, authUser >>

\* the same for the CSV handler, up to the await inside
\* buildFinancialMovementsReport or its throw
CsvQuery(r, from, to, granularity) ==
    /\ IsAuthed(r)
    /\ req[r].endpoint = "csv"
    /\ requireRoleOr403(res[r], TheUser(r), { "ADMIN" }).ok
    /\ req' = [req EXCEPT ![r] = [parsed |-> TRUE, from |-> from, to |-> to] @@ @]
    /\ RequestCsv(r, from, to, granularity)
    /\ hpc' = [hpc EXCEPT ![r] = "building"]
    /\ UNCHANGED << res, lookups, authUser >>

\* the role check passes: the balance handler up to the await of groupBy
BalanceQuery(r) ==
    /\ IsAuthed(r)
    /\ req[r].endpoint = "balance"
    /\ requireRoleOr403(res[r], TheUser(r), { "ADMIN" }).ok
    /\ pc[r] = "idle"
    /\ pc' = [pc EXCEPT ![r] = "grouping"]
    /\ params' = [params EXCEPT ![r] = [kind |-> "balance"]]
    /\ queries' = [queries EXCEPT ![r] = @ + 1]
    /\ hpc' = [hpc EXCEPT ![r] = "building"]
    /\ UNCHANGED << db, clients, where, txs, idx, balance, buckets, result, err, rangeArgs,
                    rangeRes, dates, call, query, rejected, req, res, lookups, authUser >>

RECURSIVE GroupSum(_, _, _)
\* _sum.amount of the group of one type, over the rows of a table
GroupSum(table, rows, type) ==
    IF rows = { } THEN 0
    ELSE LET row == CHOOSE x \in rows : TRUE
         IN  (IF row.type = type THEN row.amount * CopiesIn(row, table) ELSE 0)
               + GroupSum(table, rows \ { row }, type)

\* groupBy resolves: buildFinancialBalanceReport returns
GroupByResolve(r, now) ==
    /\ pc[r] = "grouping"
    /\ LET income == GroupSum(db, BagToSet(db), "INCOME")
           expense == GroupSum(db, BagToSet(db), "EXPENSE")
       IN  result' = [result EXCEPT ![r] =
                        [kind |-> "balance", balance |-> income - expense,
                         currency |-> StrCOP, asOf |-> ToISOString(now),
                         totals |-> [income |-> income, expense |-> expense]]]
    /\ pc' = [pc EXCEPT ![r] = "done"]
    /\ UNCHANGED << db, clients, params, where, queries, txs, idx, balance, buckets,
                    err, rangeArgs, rangeRes, dates, call, query, rejected, httpVars >>

\* groupBy rejects: buildFinancialBalanceReport rejects with the same error
GroupByReject(r, e) ==
    /\ pc[r] = "grouping"
    /\ rejected' = [rejected EXCEPT ![r] = e]
    /\ pc' = [pc EXCEPT ![r] = "thrown"]
    /\ err' = [err EXCEPT ![r] = e]
    /\ UNCHANGED << db, clients, params, where, queries, txs, idx, balance, buckets,
                    result, rangeArgs, rangeRes, dates, call, query, httpVars >>

\* the builder has settled: the handler answers 200, or its catch answers
Respond(r) ==
    /\ hpc[r] = "building"
    /\ pc[r] \in { "done", "thrown" }
    /\ res' = [res EXCEPT ![r] =
                 IF pc[r] = "done" THEN Send(@, 200)
                 ELSE IF req[r].endpoint = "chart"
                 THEN IF IncludesInvalidDateRange(err[r])
                      THEN jsonError(@, 400, err[r])
                      ELSE jsonError(@, 500, FailedChart)
                 ELSE IF req[r].endpoint = "csv"
                 THEN jsonError(@, 500, FailedCsv)
                 ELSE jsonError(@, 500, FailedBalance)]
    /\ hpc' = [hpc EXCEPT ![r] = "responded"]
    /\ UNCHANGED << req, lookups, authUser, buildVars >>

InitEndpoints ==
    /\ db \in TablesUpTo(RowsOf(TransactionType), MaxEndpointTx)
    /\ clients = { 1 }
    /\ InitRequests

NextEndpoints ==
    \/ \E r \in clients, e \in ReportEndpoints, m \in HttpMethods : Handle(r, e, m)
    \/ \E r \in clients, session \in Sessions : GetSessionResolve(r, session)
    \/ \E r \in clients, found \in Lookups : FindUniqueResolve(r, found)
    \/ \E r \in clients : Forbid(r)
    \/ \E r \in clients : RejectQuery(r)
    \/ \E r \in clients, from \in OptTimes, to \in OptTimes,
            g \in FinancialMovementsQueryGranularity : ChartQuery(r, from, to, g)
    \/ \E r \in clients, from \in OptTimes, to \in OptTimes,
            g \in FinancialMovementsQueryGranularity : CsvQuery(r, from, to, g)
    \/ \E r \in clients : BalanceQuery(r)
    \/ \E r \in clients, now \in Times : GroupByResolve(r, now)
    \/ \E r \in clients, e \in SourceErrors : GroupByReject(r, e)
    \/ \E r \in clients, e \in SourceErrors : FindManyReject(r, e)
    \/ \E r \in Reqs : FindManyResolve(r)
    \/ \E r \in Reqs : FoldReport(r)
    \/ \E r \in Reqs : ReturnReport(r)
    \/ \E r \in Reqs : FoldChart(r)
    \/ \E r \in Reqs : ReturnChart(r)
    \/ \E r \in clients : Respond(r)

SpecEndpoints == InitEndpoints /\ [][NextEndpoints]_vars

(***************************************************************************)
(* The HTTP handler of the transactions endpoint                           *)
(* (pages/api/v1/transactions/index.ts).  A row of the table has a userId; *)
(* the rows are dated at the first or the last instant.  The handler       *)
(* authenticates first, whatever the method, then lists (GET) or creates   *)
(* (POST); each awaits one query and answers in the same turn.             *)
(***************************************************************************)
TransactionMethods == { "GET", "POST", "DELETE" }
OptUserIds == { { } } \cup { { u } : u \in UserIds }
OwnedRows ==
    [amount : { MaxAmount }, date : { FirstInstant, LastInstant },
     type : TransactionType, userId : UserIds]

\* a body CreateTransactionSchema accepts, or none for one it refuses
BodyData == [amount : { MaxAmount }, date : { { }, { FirstInstant } }, type : TransactionType]
Bodies == { { } } \cup { { b } : b \in BodyData }

ACCESS_DENIED == "ERROR_MESSAGES.ACCESS_DENIED"
InvalidRequestBody == "Invalid request body"
FailedFetch == "Failed to fetch transactions"
FailedCreate == "Failed to create transaction"

\* the handler is called: requireAuthOr401 up to its await of getSession
HandleTransactions(r, method) ==
    /\ r \in clients
    /\ hpc[r] = "idle"
    /\ req' = [req EXCEPT ![r] = [endpoint |-> "transactions", method |-> method]]
    /\ hpc' = [hpc EXCEPT ![r] = "session"]
    /\ UNCHANGED << res, lookups, authUser, buildVars >>

IsAuthedTransactions(r) == hpc[r] = "authed" /\ req[r].endpoint = "transactions"

\* the where of the GET: undefined, or a userId
TransactionsWhere(user, queryUserId) ==
    IF user.role = "ADMIN" THEN queryUserId ELSE { user.id }

\* the guard of the 403 of the GET
GetDenied(user, queryUserId) ==
    user.role = "USER" /\ queryUserId # { } /\ queryUserId # { user.id }

\* the guard of the 403 of the POST
PostDenied(user, queryUserId, bodyUserId) ==
    /\ user.role = "USER"
    /\ (queryUserId # { } \/ bodyUserId # { })
    /\ (queryUserId # { user.id } /\ bodyUserId # { user.id })

\* userIdToUse
UserIdToUse(user, queryUserId) ==
    IF user.role = "ADMIN" /\ queryUserId # { }
    THEN CHOOSE u \in queryUserId : TRUE
    ELSE user.id

\* GET: the 403, or the handler up to its await of findMany
TransactionsGet(r, queryUserId) ==
    /\ IsAuthedTransactions(r)
    /\ req[r].method = "GET"
    /\ pc[r] = "idle"
    /\ req' = [req EXCEPT ![r] = [queryUserId |-> queryUserId] @@ @]
    /\ IF GetDenied(TheUser(r), queryUserId)
       THEN /\ res' = [res EXCEPT ![r] = jsonError(@, 403, ACCESS_DENIED)]
            /\ hpc' = [hpc EXCEPT ![r] = "responded"]
            /\ UNCHANGED << pc, params, where, queries >>
       ELSE /\ where' = [where EXCEPT ![r] = TransactionsWhere(TheUser(r), queryUserId)]
            /\ params' = [params EXCEPT ![r] = [kind |-> "list"]]
            /\ queries' = [queries EXCEPT ![r] = @ + 1]
            /\ pc' = [pc EXCEPT ![r] = "listing"]
            /\ hpc' = [hpc EXCEPT ![r] = "building"]
            /\ UNCHANGED res
    /\ UNCHANGED << db, clients, txs, idx, balance, buckets, result, err, rangeArgs,
                    rangeRes, dates, call, query, rejected, lookups, authUser >>

\* the rows a where selects
SelectByUser(table, w) ==
    LET keep == { row \in BagToSet(table) : w = { } \/ row.userId \in w }
    IN  [row \in keep |-> table[row]]

RECURSIVE OrderByDateDesc(_)
\* the lists the query may return for orderBy date desc
OrderByDateDesc(b) ==
    IF BagToSet(b) = { } THEN { << >> }
    ELSE LET rows == BagToSet(b)
             first == { row \in rows : \A q \in rows : row.date >= q.date }
         IN  UNION { { << row >> \o rest :
                         rest \in OrderByDateDesc(b (-) SetToBag({row})) } :
                     row \in first }

\* findMany resolves and the handler answers 200 with the list
ListResolve(r) ==
    /\ pc[r] = "listing"
    /\ \E rows \in OrderByDateDesc(SelectByUser(db, where[r])) :
         txs' = [txs EXCEPT ![r] = rows]
    /\ pc' = [pc EXCEPT ![r] = "done"]
    /\ res' = [res EXCEPT ![r] = Send(@, 200)]
    /\ hpc' = [hpc EXCEPT ![r] = "responded"]
    /\ UNCHANGED << db, clients, params, where, queries, idx, balance, buckets, result,
                    err, rangeArgs, rangeRes, dates, call, query, rejected, req, lookups,
                    authUser >>

\* findMany rejects and the catch answers 500
ListReject(r, e) ==
    /\ pc[r] = "listing"
    /\ rejected' = [rejected EXCEPT ![r] = e]
    /\ pc' = [pc EXCEPT ![r] = "thrown"]
    /\ res' = [res EXCEPT ![r] = jsonError(@, 500, FailedFetch)]
    /\ hpc' = [hpc EXCEPT ![r] = "responded"]
    /\ UNCHANGED << db, clients, params, where, queries, txs, idx, balance, buckets,
                    result, err, rangeArgs, rangeRes, dates, call, query, req, lookups,
                    authUser >>

\* POST: the 400, the 403, or the handler up to its await of create
TransactionsPost(r, queryUserId, bodyUserId, body, now) ==
    /\ IsAuthedTransactions(r)
    /\ req[r].method = "POST"
    /\ pc[r] = "idle"
    /\ req' = [req EXCEPT ![r] = [queryUserId |-> queryUserId, bodyUserId |-> bodyUserId,
                                  parsed |-> body # { }] @@ @]
    /\ IF body = { }
       THEN /\ res' = [res EXCEPT ![r] = jsonError(@, 400, InvalidRequestBody)]
            /\ hpc' = [hpc EXCEPT ![r] = "responded"]
            /\ UNCHANGED << pc, params, queries >>
       ELSE IF PostDenied(TheUser(r), queryUserId, bodyUserId)
       THEN /\ res' = [res EXCEPT ![r] = jsonError(@, 403, ACCESS_DENIED)]
            /\ hpc' = [hpc EXCEPT ![r] = "responded"]
            /\ UNCHANGED << pc, params, queries >>
       ELSE /\ LET data == CHOOSE b \in body : TRUE
               IN  params' = [params EXCEPT ![r] =
                                [kind |-> "create",
                                 data |-> [amount |-> data.amount,
                                           date |-> IF data.date = { } THEN now
                                                    ELSE CHOOSE d \in data.date : TRUE,
                                           type |-> data.type,
                                           userId |-> UserIdToUse(TheUser(r), queryUserId)]]]
            /\ queries' = [queries EXCEPT ![r] = @ + 1]
            /\ pc' = [pc EXCEPT ![r] = "creating"]
            /\ hpc' = [hpc EXCEPT ![r] = "building"]
            /\ UNCHANGED res
    /\ UNCHANGED << db, clients, where, txs, idx, balance, buckets, result, err, rangeArgs,
                    rangeRes, dates, call, query, rejected, lookups, authUser >>

\* create resolves and the handler answers 201 with the row
CreateResolve(r) ==
    /\ pc[r] = "creating"
    /\ db' = db (+) SetToBag({ params[r].data })
    /\ result' = [result EXCEPT ![r] = [kind |-> "created"] @@ params[r].data]
    /\ pc' = [pc EXCEPT ![r] = "done"]
    /\ res' = [res EXCEPT ![r] = Send(@, 201)]
    /\ hpc' = [hpc EXCEPT ![r] = "responded"]
    /\ UNCHANGED << clients, params, where, queries, txs, idx, balance, buckets, err,
                    rangeArgs, rangeRes, dates, call, query, rejected, req, lookups,
                    authUser >>

\* create rejects and the catch answers 500
CreateReject(r, e) ==
    /\ pc[r] = "creating"
    /\ rejected' = [rejected EXCEPT ![r] = e]
    /\ pc' = [pc EXCEPT ![r] = "thrown"]
    /\ res' = [res EXCEPT ![r] = jsonError(@, 500, FailedCreate)]
    /\ hpc' = [hpc EXCEPT ![r] = "responded"]
    /\ UNCHANGED << db, clients, params, where, queries, txs, idx, balance, buckets,
                    result, err, rangeArgs, rangeRes, dates, call, query, req, lookups,
                    authUser >>

\* any other method: 405 with Allow: GET, POST
TransactionsOther(r) ==
    /\ IsAuthedTransactions(r)
    /\ req[r].method \notin { "GET", "POST" }
    /\ res' = [res EXCEPT ![r] = Send(SetAllow(@, "GET, POST"), 405)]
    /\ hpc' = [hpc EXCEPT ![r] = "responded"]
    /\ UNCHANGED << req, lookups, authUser, buildVars >>

InitTransactions ==
    /\ db \in TablesUpTo(OwnedRows, MaxEndpointTx)
    /\ clients = { 1 }
    /\ InitRequests

NextTransactions ==
    \/ \E r \in clients, m \in TransactionMethods : HandleTransactions(r, m)
    \/ \E r \in clients, session \in Sessions : GetSessionResolve(r, session)
    \/ \E r \in clients, found \in Lookups : FindUniqueResolve(r, found)
    \/ \E r \in clients, q \in OptUserIds : TransactionsGet(r, q)
    \/ \E r \in clients : ListResolve(r)
    \/ \E r \in clients, e \in SourceErrors : ListReject(r, e)
    \/ \E r \in clients, q \in OptUserIds, b \in OptUserIds, body \in Bodies,
            now \in { LastInstant } : TransactionsPost(r, q, b, body, now)
    \/ \E r \in clients : CreateResolve(r)
    \/ \E r \in clients, e \in SourceErrors : CreateReject(r, e)
    \/ \E r \in clients : TransactionsOther(r)

SpecTransactions == InitTransactions /\ [][NextTransactions]_vars

(***************************************************************************)
(* Properties.                                                             *)
(***************************************************************************)
\* the rows that occur in the table or in a list
RowsIn(list) == BagToSet(db) \cup { list[i] : i \in 1..Len(list) }

RECURSIVE SumOfType(_, _)
\* the sum of the amounts of the transactions of one type in a list
SumOfType(list, type) ==
    IF list = << >> THEN 0
    ELSE (IF Head(list).type = type THEN Head(list).amount ELSE 0)
           + SumOfType(Tail(list), type)

\* how often a row occurs in a list
CountIn(list, row) == Cardinality({ i \in 1..Len(list) : list[i] = row })

\* the list holds exactly the rows of the table dated in [lo, hi]
FetchedClosed(list, lo, hi) ==
    \A row \in RowsIn(list) :
        CountIn(list, row) =
            IF row.date >= lo /\ row.date <= hi THEN CopiesIn(row, db) ELSE 0

\* the list holds exactly the rows of the table dated in [lo, hiExclusive)
FetchedHalfOpen(list, lo, hiExclusive) ==
    \A row \in RowsIn(list) :
        CountIn(list, row) =
            IF row.date >= lo /\ row.date < hiExclusive THEN CopiesIn(row, db) ELSE 0

\* the bounds of a report request as instants, when it has them
TheFrom(r) == CHOOSE f \in params[r].from : TRUE
TheTo(r) == CHOOSE t \in params[r].to : TRUE
BothGiven(r) == params[r].from # { } /\ params[r].to # { }
\* the bounds of a chart request as instants (NaN when unparsable)
ChartFrom(r) == dates[r].fromDate
ChartTo(r) == dates[r].toDate
ChartBoundsValid(r) == ChartFrom(r) # NaN /\ ChartTo(r) # NaN

Fetched(r) == pc[r] \in { "folding", "done" }
IsReport(r) == params[r].kind = "report"
IsChart(r) == params[r].kind = "chart"
DoneReport(r) == pc[r] = "done" /\ IsReport(r)
DoneChart(r) == pc[r] = "done" /\ IsChart(r)

NetsOf(map) == [i \in 1..Len(map) |-> map[i].val.income - map[i].val.expense]
FieldOf(series, f) == [i \in 1..Len(series) |-> series[i][f]]

RECURSIVE ReportBalance(_, _)
\* the balance after the loop of the tabular builder over a list, run alone
ReportBalance(sum, list) ==
    IF list = << >> THEN sum
    ELSE ReportBalance(ReportBalanceStep(sum, Head(list)), Tail(list))

RECURSIVE ChartBuckets(_, _, _)
\* the bucket map after the loop of the chart builder over a list, run alone
ChartBuckets(map, list, granularity) ==
    IF list = << >> THEN map
    ELSE ChartBuckets(ChartBucketStep(map, Head(list), granularity),
                      Tail(list), granularity)

BucketIsSumOfItsOwn(list, keys, key, income, expense) ==
    LET own == { i \in 1..Len(list) : keys[i] = key }
        SumOwn(type) ==
            SumSeq([i \in 1..Len(list) |->
                      IF i \in own /\ list[i].type = type THEN list[i].amount ELSE 0])
    IN  /\ own # { }
        /\ income = SumOwn("INCOME")
        /\ expense = SumOwn("EXPENSE")

C5_InvalidRangeThrowsBeforeQuery ==
    \A r \in Reqs :
        /\ (IsReport(r) /\ BothGiven(r) /\ TheFrom(r) > TheTo(r))
           => (pc[r] = "thrown" /\ err[r] = InvalidDateRangeMsg /\ queries[r] = 0)
        /\ (IsChart(r) /\ ChartBoundsValid(r) /\ ChartFrom(r) > ChartTo(r))
           => (pc[r] = "thrown" /\ err[r] = InvalidDateRangeMsg /\ queries[r] = 0)

C5_Witness ==
    \E r \in Reqs :
        /\ IsReport(r) /\ BothGiven(r)
        /\ TheFrom(r) = TheTo(r) + TickHours
        /\ pc[r] = "thrown"
        /\ queries[r] = 0
        /\ db # EmptyBag

\* C6 as claimed: with from and to the same instant neither builder throws
\* and only the transactions dated at that instant are selected.
C6_SingleInstantWindow ==
    \A r \in Reqs :
        /\ (IsReport(r) /\ BothGiven(r) /\ TheFrom(r) = TheTo(r))
           => (pc[r] # "thrown"
               /\ (Fetched(r) => FetchedClosed(txs[r], TheFrom(r), TheFrom(r))))
        /\ (IsChart(r) /\ ChartBoundsValid(r) /\ ChartFrom(r) = ChartTo(r))
           => (pc[r] # "thrown"
               /\ (Fetched(r) => FetchedClosed(txs[r], ChartFrom(r), ChartFrom(r))))

\* C6 as amended: with from and to the same instant t neither builder
\* throws; the tabular builder selects the transactions dated exactly t, the
\* chart builder those with t <= date < t + 1 day.
C6_EqualBoundsWindow ==
    \A r \in Reqs :
        /\ (IsReport(r) /\ BothGiven(r) /\ TheFrom(r) = TheTo(r))
           => (pc[r] # "thrown"
               /\ (Fetched(r) => FetchedClosed(txs[r], TheFrom(r), TheFrom(r))))
        /\ (IsChart(r) /\ ChartBoundsValid(r) /\ ChartFrom(r) = ChartTo(r))
           => (pc[r] # "thrown"
               /\ (Fetched(r) =>
                     FetchedHalfOpen(txs[r], ChartFrom(r), ChartFrom(r) + HoursPerDay)))

C6_Witness ==
    \E r \in Reqs :
        /\ DoneChart(r)
        /\ ChartBoundsValid(r) /\ ChartFrom(r) = ChartTo(r)
        /\ BagCardinality(db) = 2
        /\ Len(txs[r]) = 1
        /\ txs[r][1].date > ChartFrom(r)
        /\ \E row \in BagToSet(db) : row.date = ChartFrom(r) + HoursPerDay

C9_ReportFilterFollowsBounds ==
    \A r \in Reqs :
        (IsReport(r) /\ pc[r] \in { "awaiting", "folding", "done" })
        => /\ (params[r].from = { } /\ params[r].to = { })
              => /\ where[r] = NoFilter
                 /\ Fetched(r) => \A row \in RowsIn(txs[r]) :
                                     CountIn(txs[r], row) = CopiesIn(row, db)
           /\ (params[r].from # { } \/ params[r].to # { })
              => /\ Cardinality(where[r]) = 1
                 /\ \A f \in where[r] :
                      /\ f.gte = params[r].from
                      /\ f.lte = params[r].to
                      /\ f.lt = { }
                 /\ Fetched(r) =>
                      \A row \in RowsIn(txs[r]) :
                          CountIn(txs[r], row) =
                              IF /\ \A v \in params[r].from : row.date >= v
                                 /\ \A v \in params[r].to : row.date <= v
                              THEN CopiesIn(row, db) ELSE 0

C9_Witness ==
    \E r \in Reqs :
        /\ DoneReport(r)
        /\ params[r].from = { } /\ params[r].to # { }
        /\ BagCardinality(db) = 2
        /\ Len(txs[r]) = 1
        /\ txs[r][1].date = TheTo(r)

\* C10 as claimed: no builder returns a report when the list the source
\* returned holds a transaction whose type is neither INCOME nor EXPENSE.
C10_UnknownTypeIsError ==
    \A r \in Reqs :
        pc[r] = "done" => \A i \in 1..Len(txs[r]) : txs[r][i].type \in TransactionType

(***************************************************************************)
(* Bucket keys.                                                            *)
(***************************************************************************)
\* a key made of a year of any number of digits, a month and a day
KeyIsDate(k) ==
    LET n == Len(k)
    IN  /\ n >= 7
        /\ k[n - 2] = ChDash /\ k[n - 5] = ChDash
        /\ \A i \in (1..n) \ { n - 2, n - 5 } : IsDigit(k[i])

\* the day number (days since 1970-01-01) such a key names
KeyDay(k) ==
    LET n == Len(k)
    IN  DaysOfCivil(NumAt(k, 1, n - 6), NumAt(k, n - 4, 2), NumAt(k, n - 1, 2))

\* the number of the Monday-to-Sunday week a day lies in (day -3 was a Monday)
WeekOfDay(day) == (day + 3) \div 7

IsKeyCall == call.fn = "bucketKeyUTC" \/ call.fn = "toPeriod"
IsWeekCall == call.fn = "bucketKeyUTC" /\ call.granularity = "week"

C12_KeysMonotonic ==
    (IsKeyCall /\ call.granularity \in { "day", "week", "month" }
       /\ call.t1 <= call.t2)
      => ~StrLess(call.k2, call.k1)

(***************************************************************************)
(* Layout of the chart report.                                             *)
(***************************************************************************)
\* C13: in a returned chart report, labels, series.income, series.expense,
\* series.net and points have the same length, index i of each of them
\* describes the bucket labels[i] (its sums are those of the fetched
\* transactions with that key), and labels is in strictly ascending order of
\* the bucket key, in whatever order the source returned the transactions.
C13_ChartArraysAligned ==
    \A r \in Reqs :
        DoneChart(r) =>
            LET chart == result[r]
                n == Len(chart.labels)
                list == txs[r]
                keys == [i \in 1..Len(list) |->
                           bucketKeyUTC(list[i].date, params[r].granularity)]
            IN  /\ Len(chart.series.income) = n
                /\ Len(chart.series.expense) = n
                /\ Len(chart.series.net) = n
                /\ Len(chart.points) = n
                /\ \A i \in 1..n :
                      /\ chart.points[i].label = chart.labels[i]
                      /\ chart.points[i].income = chart.series.income[i]
                      /\ chart.points[i].expense = chart.series.expense[i]
                      /\ chart.points[i].net = chart.series.net[i]
                      /\ BucketIsSumOfItsOwn(list, keys, chart.labels[i],
                                             chart.series.income[i], chart.series.expense[i])
                /\ \A i \in 1..(n - 1) : StrLess(chart.labels[i], chart.labels[i + 1])

\* the source returned a later transaction before an earlier one of another
\* bucket, and the chart has been returned
C13_Witness ==
    \E r \in Reqs :
        /\ DoneChart(r)
        /\ Len(txs[r]) = 2
        /\ txs[r][1].date > txs[r][2].date
        /\ Len(result[r].labels) = 2
        /\ result[r].points[1].label = bucketKeyUTC(txs[r][2].date, params[r].granularity)

(***************************************************************************)
(* Granularity all.                                                        *)
(***************************************************************************)
\* the calendar month (year * 12 + month) of an instant
MonthOf(t) == UTCFields(t).y * 12 + UTCFields(t).m

\* the calendar month a key YYYY-MM names
KeyMonth(k) == NumAt(k, 1, Len(k) - 3) * 12 + NumAt(k, Len(k) - 1, 2)

\* the sum of the amounts of one type of the transactions of one month
SumOfMonth(list, month, type) ==
    SumSeq([i \in 1..Len(list) |->
              IF MonthOf(list[i].date) = month /\ list[i].type = type
              THEN list[i].amount ELSE 0])

\* C14: granularity all has two meanings.  A tabular report built with all
\* merges every fetched transaction into one bucket whose period is "all".
\* On the chart request path the query value all is mapped to month, day and
\* month are passed unchanged, the response's meta.granularity is month, and
\* the transactions of different calendar months stay in different buckets
\* (one bucket per month, holding that month's sums).
C14_AllHasTwoMeanings ==
    \A r \in Reqs :
        /\ (DoneReport(r) /\ params[r].granularity = "all" /\ txs[r] # << >>)
             => /\ Len(result[r].series) = 1
                /\ result[r].series[1].period = StrAll
                /\ result[r].series[1].income = SumOfType(txs[r], "INCOME")
                /\ result[r].series[1].expense = SumOfType(txs[r], "EXPENSE")
        /\ (IsChart(r) /\ query[r] # NoQuery)
             => params[r].granularity = (IF query[r] = "all" THEN "month" ELSE query[r])
        /\ (DoneChart(r) /\ query[r] = "all")
             => LET chart == result[r]
                    months == { MonthOf(txs[r][i].date) : i \in 1..Len(txs[r]) }
                IN  /\ chart.meta.granularity = "month"
                    /\ Len(chart.labels) = Cardinality(months)
                    /\ { KeyMonth(chart.labels[i]) : i \in 1..Len(chart.labels) } = months
                    /\ \A i \in 1..Len(chart.labels) :
                          /\ chart.series.income[i] =
                               SumOfMonth(txs[r], KeyMonth(chart.labels[i]), "INCOME")
                          /\ chart.series.expense[i] =
                               SumOfMonth(txs[r], KeyMonth(chart.labels[i]), "EXPENSE")

\* a chart requested with all over transactions of two months
C14_Witness ==
    \E r \in Reqs :
        /\ DoneChart(r)
        /\ query[r] = "all"
        /\ Len(txs[r]) = 2
        /\ MonthOf(txs[r][1].date) # MonthOf(txs[r][2].date)
        /\ Len(result[r].labels) = 2

(***************************************************************************)
(* Number of buckets per granularity.                                      *)
(***************************************************************************)
IsSeriesCall == call.fn = "series"

\* C15: for one fetched list, the tabular report has at least as many
\* buckets with day as with month, and at least as many with month as with
\* all; with all it has exactly one bucket when the list is not empty (and
\* none when it is empty).
C15_CoarserHasFewerBuckets ==
    IsSeriesCall =>
        /\ Len(call.day) >= Len(call.month)
        /\ Len(call.month) >= Len(call.all)
        /\ Len(call.all) = (IF call.list = << >> THEN 0 ELSE 1)

\* a list of three days in two months: three, two and one bucket
C15_Witness ==
    /\ IsSeriesCall
    /\ Len(call.list) = 3
    /\ Len(call.day) = 3
    /\ Len(call.month) = 2
    /\ Len(call.all) = 1

(***************************************************************************)
(* CSV.                                                                    *)
(***************************************************************************)
IsEscCall == call.fn = "esc"
IsCsvCall == call.fn = "csv"

RECURSIVE SplitAt(_, _)
\* text.split(sep) for a separator of one character
SplitAt(text, sep) ==
    IF \A i \in 1..Len(text) : text[i] # sep THEN << text >>
    ELSE LET i == CHOOSE j \in 1..Len(text) :
                     text[j] = sep /\ \A k \in 1..(j - 1) : text[k] # sep
         IN  << SubSeq(text, 1, i - 1) >> \o SplitAt(SubSeq(text, i + 1, Len(text)), sep)

\* how often a character occurs in a string
CountChar(text, c) == Cardinality({ i \in 1..Len(text) : text[i] = c })

\* the line feeds in the currency, from, to and period fields of a report
LineFeedsIn(report) ==
    CountChar(report.currency, ChLF) + CountChar(OrEmpty(report.from), ChLF)
      + CountChar(OrEmpty(report.to), ChLF)
      + SumSeq([i \in 1..Len(report.series) |->
                  CountChar(report.series[i].period, ChLF)])

\* C16, as stated: for every tabular report the CSV text split at "\n" has
\* exactly 5 + 1 + 1 + series.length elements, whatever characters the
\* period, currency, from and to fields contain.
C16_LineCountAnyCharacters ==
    IsCsvCall =>
        Len(SplitAt(call.csv, ChLF)) = 5 + 1 + 1 + Len(call.report.series)

\* C16, amended: the CSV text split at "\n" has 5 + 1 + 1 + series.length
\* elements plus one for every line feed in the period, currency, from and to
\* fields; so exactly 5 + 1 + 1 + series.length when none of them contains a
\* line feed, whatever else they contain.
C16_LineCountPlusLineFeeds ==
    IsCsvCall =>
        Len(SplitAt(call.csv, ChLF)) =
            5 + 1 + 1 + Len(call.report.series) + LineFeedsIn(call.report)

\* a report with a line feed as the period of its series entries, as its
\* currency and as its from
C16_Witness ==
    /\ IsCsvCall
    /\ Len(call.report.series) = MaxSeries
    /\ call.report.series[1].period = << ChLF >>
    /\ call.report.currency = << ChLF >>
    /\ call.report.from = { << ChLF >> }
    /\ call.report.to = { }
    /\ Len(SplitAt(call.csv, ChLF)) = 7 + MaxSeries + MaxSeries + 2

\* the elements of a set of numbers in ascending order
Ascending(set) ==
    [k \in 1..Cardinality(set) |->
       CHOOSE x \in set : Cardinality({ y \in set : y < x }) = k - 1]

\* position i of a CSV text is outside quotes: an even number of quotes
\* precedes it
OutsideQuotes(text, i) ==
    Cardinality({ j \in 1..(i - 1) : text[j] = ChQuote }) % 2 = 0

\* the pieces of a CSV text between the separators that are outside quotes
SplitOutsideQuotes(text, sep) ==
    LET at == Ascending({ i \in 1..Len(text) : text[i] = sep /\ OutsideQuotes(text, i) })
        cuts == << 0 >> \o at \o << Len(text) + 1 >>
    IN  [k \in 1..(Len(at) + 1) |-> SubSeq(text, cuts[k] + 1, cuts[k + 1] - 1)]

\* the value of a CSV field: a quoted field loses its quotes and each pair
\* of quotes in it is one quote
FieldValue(field) ==
    IF Len(field) >= 2 /\ field[1] = ChQuote /\ field[Len(field)] = ChQuote
    THEN LET inner == SubSeq(field, 2, Len(field) - 1)
             kept == Ascending({ j \in 1..Len(inner) :
                                   inner[j] # ChQuote \/ OutsideQuotes(inner, j) })
         IN  [k \in 1..Len(kept) |-> inner[kept[k]]]
    ELSE field

\* reads CSV text: records end at a line feed outside quotes, fields at a
\* comma outside quotes
ParseCsv(text) ==
    LET records == SplitOutsideQuotes(text, ChLF)
    IN  [r \in 1..Len(records) |->
           LET fields == SplitOutsideQuotes(records[r], ChComma)
           IN  [f \in 1..Len(fields) |-> FieldValue(fields[f])]]

IsSpecial(s) == \E i \in 1..Len(s) : s[i] \in { ChComma, ChQuote, ChLF, ChCR }
IsQuoted(out) == Len(out) >= 2 /\ out[1] = ChQuote /\ out[Len(out)] = ChQuote

C18_CsvLayout ==
    IsCsvCall =>
        LET rep == call.report
            recs == ParseCsv(call.csv)
            n == Len(rep.series)
        IN  /\ Len(recs) = 5 + 1 + 1 + n
            /\ recs[1] = << StrCurrency, rep.currency >>
            /\ recs[2] = << StrGranularity, StringOfGranularity(rep.granularity) >>
            /\ recs[3] = << StrFrom, OrEmpty(rep.from) >>
            /\ recs[4] = << StrTo, OrEmpty(rep.to) >>
            /\ recs[5] = << StrBalance, StringOfNumber(rep.balance) >>
            /\ recs[6] = << StrEmpty >>
            /\ recs[7] = << StrPeriod, StrIncome, StrExpense, StrNet >>
            /\ \A i \in 1..n :
                  recs[7 + i] = << rep.series[i].period,
                                  StringOfNumber(rep.series[i].income),
                                  StringOfNumber(rep.series[i].expense),
                                  StringOfNumber(rep.series[i].net) >>

\* a report without from, with to, a negative balance and series entries
C18_Witness ==
    /\ IsCsvCall
    /\ call.report.from = { }
    /\ call.report.to # { }
    /\ call.report.balance < 0
    /\ Len(call.report.series) = MaxSeries
    /\ Len(ParseCsv(call.csv)) = 7 + MaxSeries

(***************************************************************************)
(* Empty source; repeated calls.                                           *)
(***************************************************************************)
\* C19: when the source returns no transactions, buildFinancialMovementsReport
\* raises no error and returns series = [] and balance = 0 with every
\* granularity, and the CSV text of that report has exactly 7 lines: five
\* of metadata, an empty one and the header.
C19_EmptySourceEmptyReport ==
    \A r \in Reqs :
        /\ (IsReport(r) /\ queries[r] > 0) => pc[r] # "thrown"
        /\ (DoneReport(r) /\ txs[r] = << >>)
             => LET lines == SplitAt(financialMovementsReportToCsv(result[r]), ChLF)
                IN  /\ result[r].series = << >>
                    /\ result[r].balance = 0
                    /\ Len(lines) = 7
                    /\ lines[6] = StrEmpty
                    /\ lines[7] = CsvHeader

\* a report with granularity all over a table that has rows, none of them
\* in the range asked for
C19_Witness ==
    \E r \in Reqs :
        /\ DoneReport(r)
        /\ params[r].granularity = "all"
        /\ db # EmptyBag
        /\ txs[r] = << >>
        /\ result[r].series = << >>

FirstIndexOf(keys, k) ==
    CHOOSE i \in 1..Len(keys) : keys[i] = k /\ \A j \in 1..(i - 1) : keys[j] # k

\* C27: a returned tabular report has one series entry per distinct bucket
\* key of the list the source returned, in the order in which the keys first
\* occur in that list; the series is not sorted, so for a list that is not
\* in date order the series follows the list.
C27_SeriesInFirstSeenOrder ==
    \A r \in Reqs :
        DoneReport(r) =>
            LET list == txs[r]
                keys == [i \in 1..Len(list) |->
                           toPeriod(list[i].date, params[r].granularity)]
                periods == FieldOf(result[r].series, "period")
                n == Len(periods)
            IN  /\ { periods[i] : i \in 1..n } = { keys[i] : i \in 1..Len(keys) }
                /\ \A i \in 1..n, j \in 1..n : i # j => periods[i] # periods[j]
                /\ \A i \in 1..n, j \in 1..n :
                      i < j => FirstIndexOf(keys, periods[i]) < FirstIndexOf(keys, periods[j])

\* the source returned a row of a later day first; the series begins with
\* that later day
C27_Witness ==
    \E r \in Reqs :
        /\ DoneReport(r)
        /\ params[r].granularity = "day"
        /\ Len(txs[r]) = 2
        /\ txs[r][1].date > txs[r][2].date
        /\ Len(result[r].series) = 2
        /\ StrLess(result[r].series[2].period, result[r].series[1].period)


\* C29: for every chart call with valid bounds, whatever the time of day of
\* `to`, the query filter is from <= date < to + 24 hours; every transaction
\* the tabular filter from <= date <= to selects is in the fetched list; and
\* the returned meta.to is the caller's `to`, not the advanced bound.
C29_ChartAdvancesAnyTo ==
    \A r \in Reqs :
        (IsChart(r) /\ Fetched(r))
        => /\ where[r] = { [gte |-> { ChartFrom(r) }, lte |-> { },
                            lt |-> { ChartTo(r) + HoursPerDay }] }
           /\ FetchedHalfOpen(txs[r], ChartFrom(r), ChartTo(r) + HoursPerDay)
           /\ \A row \in BagToSet(db) :
                (row.date >= ChartFrom(r) /\ row.date <= ChartTo(r))
                   => CountIn(txs[r], row) = CopiesIn(row, db)
           /\ pc[r] = "done"
                => /\ result[r].meta.to = params[r].to
                   /\ DateParse(result[r].meta.to) = ChartTo(r)

C29_Witness ==
    \E r \in Reqs :
        /\ DoneChart(r)
        /\ UTCHours(ChartTo(r)) # 0
        /\ ChartFrom(r) < ChartTo(r)
        /\ \E row \in BagToSet(db) :
             row.date = ChartTo(r) + TickHours /\ CountIn(txs[r], row) = 1
        /\ \E row \in BagToSet(db) :
             row.date = ChartFrom(r) /\ CountIn(txs[r], row) = 1
        /\ result[r].meta.to = ToISOString(ChartTo(r))


\* C30: for a list in ascending date order, the periods of the tabular series
\* built with day name strictly later days from one entry to the next, and
\* those built with month strictly later months: no period is there twice
\* and no later period comes before an earlier one.
C30_SeriesPeriodsAscending ==
    IsSeriesCall =>
        LET days == FieldOf(call.day, "period")
            months == FieldOf(call.month, "period")
        IN  /\ \A i \in 1..Len(days) : KeyIsDate(days[i])
            /\ \A i \in 1..Len(days), j \in 1..Len(days) :
                  i < j => KeyDay(days[i]) < KeyDay(days[j])
            /\ \A i \in 1..Len(months), j \in 1..Len(months) :
                  i < j => KeyMonth(months[i]) < KeyMonth(months[j])

\* two transactions of one day and a third of the next month
C30_Witness ==
    /\ IsSeriesCall
    /\ Len(call.list) = 3
    /\ call.list[1].date \div HoursPerDay = call.list[2].date \div HoursPerDay
    /\ call.list[1].date < call.list[2].date
    /\ MonthOf(call.list[2].date) < MonthOf(call.list[3].date)
    /\ Len(call.day) = 2
    /\ Len(call.month) = 2
    /\ StrLess(call.day[1].period, call.day[2].period)
    /\ StrLess(call.month[1].period, call.month[2].period)


\* C21: with two builds in flight at once, the accumulators of each build are
\* at every step what its own loop, run alone over the part of its own
\* fetched list it has covered, makes them, and the report each build returns
\* is the report of its own fetched list: no build's balance or bucket map
\* shows a write of the other.
C21_ConcurrentBuildsIsolated ==
    \A r \in Reqs :
        LET g == params[r].granularity
            seen == SubSeq(txs[r], 1, idx[r])
        IN  /\ (IsReport(r) /\ Fetched(r))
                => /\ balance[r] = ReportBalance(0, seen)
                   /\ buckets[r] = ReportBuckets(<< >>, seen, g)
            /\ (IsChart(r) /\ Fetched(r))
                => buckets[r] = ChartBuckets(<< >>, seen, g)
            /\ DoneReport(r)
                => result[r] = [kind |-> "report"] @@
                                 ReportResult(params[r], ReportBalance(0, txs[r]),
                                              ReportBuckets(<< >>, txs[r], g))
            /\ DoneChart(r)
                => result[r] = [kind |-> "chart"] @@
                                 ChartResult(params[r], ChartBuckets(<< >>, txs[r], g))

\* the second build fetched one row and is still in its loop; the first
\* fetched later, after a row was created, and has returned its report
C21_Witness ==
    /\ DoneReport(FirstCaller)
    /\ Len(txs[FirstCaller]) = 2
    /\ Len(result[FirstCaller].series) = 2
    /\ IsChart(SecondCaller)
    /\ pc[SecondCaller] = "folding"
    /\ Len(txs[SecondCaller]) = 1
    /\ idx[SecondCaller] = 1
    /\ Len(buckets[SecondCaller]) = 1


\* C22: a builder call issues at most one query; when the query rejects, the
\* call has thrown the error the query rejected with, has issued no further
\* query and has returned no report.
C22_OneQueryNoRetry ==
    \A r \in Reqs :
        /\ queries[r] <= 1
        /\ pc[r] \in { "awaiting", "folding", "done" } => queries[r] = 1
        /\ rejected[r] # NoError
             => /\ pc[r] = "thrown"
                /\ err[r] = rejected[r]
                /\ queries[r] = 1
                /\ result[r] = NoResult

C22_Witness ==
    \E r \in Reqs :
        /\ IsChart(r)
        /\ rejected[r] \in SourceErrors
        /\ pc[r] = "thrown"
        /\ err[r] = rejected[r]
        /\ BagCardinality(db) = MaxTx


(***************************************************************************)
(* The HTTP handlers.                                                      *)
(***************************************************************************)
Has(r, field) == field \in DOMAIN req[r]
StatusesOf(r) == { res[r].writes[i].status : i \in 1..Len(res[r].writes) }
Responded(r) == hpc[r] = "responded"

\* the request passed the role check and its query was parsed, with from
\* after to
FromAfterTo(r) ==
    /\ Has(r, "parsed")
    /\ req[r].parsed
    /\ req[r].from # { } /\ req[r].to # { }
    /\ \A f \in req[r].from, t \in req[r].to : f > t

\* C23: for an authenticated ADMIN GET request to the chart or the CSV
\* endpoint whose from and to are valid dates with from after to, the
\* handler does not end in an unhandled exception, its response is one
\* 400-class response with the invalid-date-range error, and no transaction
\* query is made.
C23_InvalidRangeIs400 ==
    \A r \in Reqs :
        (req[r].endpoint \in { "chart", "csv" } /\ FromAfterTo(r))
        => /\ hpc[r] # "crashed"
           /\ queries[r] = 0
           /\ Responded(r)
                => /\ Len(res[r].writes) = 1
                   /\ res[r].writes[1].status \in 400..499
                   /\ IncludesInvalidDateRange(res[r].writes[1].message)

\* C24: in the report endpoints the method check comes before the
\* authentication, the authentication before the role check, the role check
\* before the validation and the validation before the data query: a session
\* is read only for a GET; a 403 is written only for an authenticated user; a
\* 400 is written only for an ADMIN; a transaction query is issued only for
\* an authenticated ADMIN whose query (chart, CSV) was parsed; a non-ADMIN
\* user is answered 403 and no query is issued; the chart endpoint with from
\* or to missing answers 400 "Invalid date range" with no query; a non-GET
\* request is answered 405 with Allow: GET and nothing else is done.
C24_StepsInOrder ==
    \A r \in Reqs :
        /\ (Has(r, "session") \/ lookups[r] > 0) => req[r].method = "GET"
        /\ 403 \in StatusesOf(r) => authUser[r] # { }
        /\ 400 \in StatusesOf(r) => (authUser[r] # { } /\ TheUser(r).role = "ADMIN")
        /\ queries[r] > 0
             => /\ req[r].method = "GET"
                /\ authUser[r] # { }
                /\ TheUser(r).role = "ADMIN"
                /\ req[r].endpoint \in { "chart", "csv" }
                     => (Has(r, "parsed") /\ req[r].parsed)
                /\ req[r].endpoint = "chart" => (req[r].from # { } /\ req[r].to # { })
        /\ (Responded(r) /\ authUser[r] # { } /\ TheUser(r).role # "ADMIN")
             => /\ StatusesOf(r) = { 403 }
                /\ queries[r] = 0
        /\ (req[r].endpoint = "chart" /\ Has(r, "parsed") /\ req[r].parsed
              /\ (req[r].from = { } \/ req[r].to = { }))
             => /\ res[r].writes = << [status |-> 400, message |-> InvalidDateRange400] >>
                /\ queries[r] = 0
        /\ (req[r].endpoint \in ReportEndpoints /\ req[r].method # "GET")
             => /\ res[r] = [allow |-> { "GET" },
                             writes |-> << [status |-> 405, message |-> NoError] >>]
                /\ lookups[r] = 0
                /\ authUser[r] = { }
                /\ queries[r] = 0

\* an ADMIN's chart request went through every step and was answered 200
C24_Witness ==
    \E r \in Reqs :
        /\ Responded(r)
        /\ req[r].endpoint = "chart"
        /\ req[r].method = "GET"
        /\ authUser[r] # { }
        /\ TheUser(r).role = "ADMIN"
        /\ lookups[r] = 1
        /\ queries[r] = 1
        /\ Len(txs[r]) = 1
        /\ StatusesOf(r) = { 200 }

\* C26: requireAuthOr401 returns a user only when the session has a user id
\* and the lookup found that user, and the user is that id with the found
\* role; in every other case it has returned null after writing exactly one
\* 401, which is the whole response; the user table is queried at most once,
\* and not at all when the session has no user id.
C26_AuthFailsClosed ==
    \A r \in Reqs :
        /\ lookups[r] <= 1
        /\ (Has(r, "session") /\ req[r].session \notin UserIds)
             => /\ lookups[r] = 0
                /\ authUser[r] = { }
                /\ res[r].writes = << [status |-> 401, message |-> Unauthorized] >>
        /\ (Has(r, "user") /\ req[r].user \notin Roles)
             => /\ authUser[r] = { }
                /\ res[r].writes = << [status |-> 401, message |-> Unauthorized] >>
        /\ authUser[r] # { }
             => /\ req[r].session \in UserIds
                /\ Has(r, "user") /\ req[r].user \in Roles
                /\ authUser[r] = { [id |-> req[r].session, role |-> req[r].user] }
                /\ 401 \notin StatusesOf(r)
        /\ 401 \in StatusesOf(r) => authUser[r] = { }

\* the session names a user and the lookup of that user rejected
C26_Witness ==
    \E r \in Reqs :
        /\ Responded(r)
        /\ Has(r, "session") /\ req[r].session \in UserIds
        /\ Has(r, "user") /\ req[r].user = "throws"
        /\ lookups[r] = 1
        /\ authUser[r] = { }
        /\ res[r].writes = << [status |-> 401, message |-> Unauthorized] >>

\* C28: a report endpoint handler writes the response at most once per
\* request, on the non-ADMIN path too.
C28_SingleResponse ==
    \A r \in Reqs : Len(res[r].writes) <= 1


\* the caller is a USER and the request was read
IsUserRequest(r) ==
    /\ req[r].endpoint = "transactions"
    /\ authUser[r] # { }
    /\ TheUser(r).role = "USER"
    /\ Has(r, "queryUserId")

\* the request names a user other than the caller, in its query or, for a
\* POST with a valid body, in its body
NamesAnotherUser(r) ==
    \/ (req[r].queryUserId # { } /\ req[r].queryUserId # { TheUser(r).id })
    \/ /\ req[r].method = "POST"
       /\ req[r].bodyUserId # { } /\ req[r].bodyUserId # { TheUser(r).id }

\* C25: in the transactions endpoint, for a caller with role USER: every
\* list query is filtered by the caller's own id and returns only the
\* caller's rows; every created transaction has the caller's own id; and a
\* request that names another user (in the query for GET, in the query or
\* the body for POST) is answered 403 and issues no database read or write.
C25_UserSeesOnlyOwnData ==
    \A r \in Reqs :
        IsUserRequest(r)
        => /\ params[r].kind = "list"
                => /\ where[r] = { TheUser(r).id }
                   /\ \A i \in 1..Len(txs[r]) : txs[r][i].userId = TheUser(r).id
           /\ params[r].kind = "create" => params[r].data.userId = TheUser(r).id
           /\ (NamesAnotherUser(r) /\ (req[r].method = "POST" => req[r].parsed))
                => /\ res[r].writes = << [status |-> 403, message |-> ACCESS_DENIED] >>
                   /\ queries[r] = 0

====
